---- MODULE Spec2Model ----
(***************************************************************************)
(* Lost & Found matcher: the matching engine (app/matching.py), the text   *)
(* extraction it relies on (app/nlp.py) and the request handlers that call *)
(* them (app/main.py) over the tables of reports and claims (app/db.py).   *)
(*                                                                         *)
(* Conventions of the model                                                *)
(*  - A text is a sequence of chunks (the pieces between blanks of the     *)
(*    normalized string); a chunk is a sequence of parts (the pieces       *)
(*    between hyphens).  "cell-phone case" is <<"cell","phone">>, <<"case">>*)
(*    An e-mail address is a chunk of one part, kept as it was typed.      *)
(*  - A score is an exact rational kept as an integer number of            *)
(*    1/(100*JD) units, JD being a common multiple of every possible       *)
(*    Jaccard denominator, so 0.55*sim + 0.20 is computed without rounding.*)
(*  - Python's None is the string NoneVal; a call that raises yields a     *)
(*    record with raised = TRUE.                                           *)
(*  - An event_time string is [k, t]: k says how datetime.fromisoformat    *)
(*    treats it ("none", "empty", "bad", "naive", "aware"), t is the       *)
(*    instant in minutes (UTC minutes for an aware value).                 *)
(***************************************************************************)
EXTENDS Integers, Sequences, FiniteSets, TLC

VARIABLES reports, claims, resp, call, ret

vars == <<reports, claims, resp, call, ret>>

NoneVal == "None"

\* ---------------------------------------------------------------------
\* Bounds of the model
\* ---------------------------------------------------------------------

\* Half-width, in minutes, of the window of instants taken around each
\* threshold of time_plausibility.
TimeEps == 1

\* Largest number of tokens of one side's text in the scoring model.
MaxTokens == 7

\* ---------------------------------------------------------------------
\* Generic helpers
\* ---------------------------------------------------------------------

Max(x, y) == IF x >= y THEN x ELSE y

Min(x, y) == IF x <= y THEN x ELSE y

Range(s) == {s[i] : i \in 1..Len(s)}

RECURSIVE Gcd(_, _)
Gcd(x, y) == IF y = 0 THEN x ELSE Gcd(y, x % y)

RECURSIVE LcmUpTo(_)
LcmUpTo(n) == IF n <= 1 THEN 1 ELSE LET l == LcmUpTo(n - 1) IN (l * n) \div Gcd(l, n)

\* Common denominator of every Jaccard value over two token sets of at
\* most MaxTokens + 1 tokens each (a side's text plus one appended token).
JD == LcmUpTo(2 * (MaxTokens + 1))

\* ---------------------------------------------------------------------
\* matching.py: jaccard, parse_iso, time_plausibility
\* ---------------------------------------------------------------------

\* jaccard(a, b), as a multiple of 1/JD.
jaccard(a, b) ==
    IF a = {} /\ b = {} THEN 0
    ELSE LET inter == Cardinality(a \cap b)
             union == Cardinality(a \cup b)
         IN IF union # 0 THEN (inter * JD) \div union ELSE 0

\* parse_iso(dt): None for a missing, empty or unparseable string,
\* otherwise the datetime (naive or aware).  NoTime stands for None.
NoTime == [k |-> "none", t |-> 0]

parse_iso(dt) ==
    IF dt.k \in {"none", "empty"} THEN NoTime
    ELSE IF dt.k = "bad" THEN NoTime
    ELSE dt

\* delta_hours = total_seconds() / 3600.0; the model counts minutes.
MinutesPerHour == 60

HoursLowMin == (0 - 1) * MinutesPerHour

HoursMidMin == 72 * MinutesPerHour

HoursHighMin == 240 * MinutesPerHour

time_plausibility_BoundaryMutant(lost_time, found_time) ==
    LET lt == parse_iso(lost_time)
        ft == parse_iso(found_time)
    IN IF lt = NoTime \/ ft = NoTime
       THEN [raised |-> FALSE, delta |-> 0, reason |-> NoneVal]
       ELSE IF lt.k # ft.k
       THEN [raised |-> TRUE, delta |-> 0, reason |-> NoneVal]
       ELSE LET d == ft.t - lt.t
            IN IF d <= HoursLowMin
               THEN [raised |-> FALSE, delta |-> -15, reason |-> "time:before"]
               ELSE IF 0 <= d /\ d <= HoursMidMin
               THEN [raised |-> FALSE, delta |-> 15, reason |-> "time:plausible"]
               ELSE IF HoursMidMin < d /\ d <= HoursHighMin
               THEN [raised |-> FALSE, delta |-> 5, reason |-> "time:wide"]
               ELSE [raised |-> FALSE, delta |-> 0, reason |-> NoneVal]

\* time_plausibility(lost_time, found_time): delta in hundredths and the
\* reason; subtracting a naive and an aware datetime raises TypeError.
time_plausibility(lost_time, found_time) ==
    LET lt == parse_iso(lost_time)
        ft == parse_iso(found_time)
    IN IF lt = NoTime \/ ft = NoTime
       THEN [raised |-> FALSE, delta |-> 0, reason |-> NoneVal]
       ELSE IF lt.k # ft.k
       THEN [raised |-> TRUE, delta |-> 0, reason |-> NoneVal]
       ELSE LET d == ft.t - lt.t
            IN IF d < HoursLowMin
               THEN [raised |-> FALSE, delta |-> -15, reason |-> "time:before"]
               ELSE IF 0 <= d /\ d <= HoursMidMin
               THEN [raised |-> FALSE, delta |-> 15, reason |-> "time:plausible"]
               ELSE IF HoursMidMin < d /\ d <= HoursHighMin
               THEN [raised |-> FALSE, delta |-> 5, reason |-> "time:wide"]
               ELSE [raised |-> FALSE, delta |-> 0, reason |-> NoneVal]

\* ---------------------------------------------------------------------
\* nlp.py: vocabularies (the part of each table the model's texts use)
\* ---------------------------------------------------------------------

STOPWORDS == {"a", "the", "near", "at", "my", "lost", "found", "missing"}

COMMON_BRANDS == {"apple", "iphone", "samsung", "casio"}

BASE_COLORS == {"black", "white", "gray", "blue", "gold"}

\* COLOR_ALIASES and _canon_color(s).
canon_color(s) ==
    CASE s = "grey" -> "gray"
      [] s = "offwhite" -> "off white"
      [] s = "golden" -> "gold"
      [] s = "bluish" -> "blue"
      [] s \in {"transparent", "clear", "seethrough"} -> "transparent"
      [] OTHER -> s

SHADES == {"light", "dark", "deep", "pale", "bright", "neon"}

\* The base colours the two shade patterns accept (gray and its alias grey).
ShadeBases == BASE_COLORS \cup {"grey"}

\* ITEM_SYNONYMS, in the order of the dict's keys.
ItemOrder == <<"phone", "wallet", "bag", "keys", "card", "documents", "calculator">>

ITEM_SYNONYMS(itype) ==
    CASE itype = "phone" -> {"phone", "mobile", "cell", "cellphone", "iphone"}
      [] itype = "calculator" -> {"calculator", "casio"}
      [] itype = "wallet" -> {"wallet", "purse", "cardholder"}
      [] itype = "bag" -> {"bag", "backpack", "pouch"}
      [] itype = "keys" -> {"key", "keys", "keyring"}
      [] itype = "card" -> {"card", "cards", "id", "nid"}
      [] itype = "documents" -> {"document", "documents", "passport", "certificate"}
      [] OTHER -> {}

\* ITEM_PHRASES: each phrase as its parts and the separators between them.
ITEM_PHRASES(itype) ==
    CASE itype = "card" -> {<<"id", " ", "card">>, <<"nid", " ", "card">>, <<"student", "-", "id">>}
      [] itype = "documents" -> {<<"nid", " ", "card">>, <<"national", " ", "id">>}
      [] OTHER -> {}

\* The preference list of infer_item_type, restricted to ItemOrder.
Preference == <<"documents", "card", "wallet", "keys", "phone", "calculator", "bag">>

\* TOKEN_CANONICAL_MAP.get(t): the last category, in dict order, that
\* lists t as a synonym; None when there is none.
RECURSIVE CanonFrom(_, _)
CanonFrom(t, i) ==
    IF i = 0 THEN NoneVal
    ELSE IF t \in ITEM_SYNONYMS(ItemOrder[i]) THEN ItemOrder[i]
    ELSE CanonFrom(t, i - 1)

TOKEN_CANONICAL_MAP(t) == CanonFrom(t, Len(ItemOrder))

\* ---------------------------------------------------------------------
\* nlp.py: tokenize, expand_tokens
\* ---------------------------------------------------------------------

RECURSIVE Flatten(_)
Flatten(text) == IF text = <<>> THEN <<>> ELSE Head(text) \o Flatten(Tail(text))

\* The e-mail addresses of the model's texts (EMAIL_RE matches each).
EmailWords == {"Bob@Mail.com"}

\* What lower() and the replacement of every character outside
\* [a-z0-9 whitespace -] by a blank leave of a chunk: an address falls
\* apart at "@" and ".", any other chunk of the model stays as it is.
NormChunk(chunk) ==
    IF chunk = <<"Bob@Mail.com">> THEN <<<<"bob">>, <<"mail">>, <<"com">>>> ELSE <<chunk>>

\* The chunks of normalize_text(s).
RECURSIVE Normalized(_)
Normalized(text) ==
    IF text = <<>> THEN <<>> ELSE NormChunk(Head(text)) \o Normalized(Tail(text))

KeepToken(part) == part # "" /\ part \notin STOPWORDS

\* tokenize(s): the parts of every chunk of the normalized text, in
\* order, without the empty parts and the stopwords.
tokenize(text) == SelectSeq(Flatten(Normalized(text)), KeepToken)

AppendNew_AlwaysMutant(seq, x) == Append(seq, x)

\* expanded.append(x) under "x not in expanded".
AppendNew(seq, x) == IF x \in Range(seq) THEN seq ELSE Append(seq, x)

RECURSIVE ExpandFrom(_, _, _)
ExpandFrom(tokens, i, expanded) ==
    IF i > Len(tokens) THEN expanded
    ELSE LET t == tokens[i]
             canon == TOKEN_CANONICAL_MAP(t)
             e1 == IF canon # NoneVal THEN AppendNew(expanded, canon) ELSE expanded
             ct == canon_color(t)
             e2 == IF ct # t THEN AppendNew(e1, ct) ELSE e1
         IN ExpandFrom(tokens, i + 1, e2)

RECURSIVE Uniq(_, _)
Uniq(seq, acc) ==
    IF seq = <<>> THEN acc ELSE Uniq(Tail(seq), AppendNew(acc, Head(seq)))

\* expand_tokens(tokens).
expand_tokens(tokens) ==
    LET expanded == ExpandFrom(tokens, 1, tokens)
        seeThrough == IF "see" \in Range(tokens) /\ "through" \in Range(tokens)
                      THEN AppendNew(expanded, "transparent")
                      ELSE expanded
    IN Uniq(seeThrough, <<>>)

\* ---------------------------------------------------------------------
\* nlp.py: normalize_text, extract_colors, infer_item_type
\* ---------------------------------------------------------------------

RECURSIVE JoinWith(_, _)
JoinWith(seqs, sep) ==
    IF seqs = <<>> THEN <<>>
    ELSE IF Len(seqs) = 1 THEN Head(seqs)
    ELSE Head(seqs) \o <<sep>> \o JoinWith(Tail(seqs), sep)

ChunkSyms(chunk) == JoinWith([i \in 1..Len(chunk) |-> <<chunk[i]>>], "-")

\* normalize_text(s) as the sequence of its parts and of the separators
\* (" " and "-") between them: a phrase is a substring of the normalized
\* string when its symbols occur in it contiguously.
normalize_text(text) ==
    JoinWith([i \in 1..Len(Normalized(text)) |-> ChunkSyms(Normalized(text)[i])], " ")

\* The words of the model's vocabulary that a part ends with, and those
\* it starts with (the part itself among them).
Suffixes(part) ==
    CASE part = "nid" -> {"nid", "id"}
      [] part = "grid" -> {"grid", "id"}
      [] part = "primrose" -> {"primrose", "rose"}
      [] OTHER -> {part}

Prefixes(part) ==
    CASE part = "cards" -> {"cards", "card"}
      [] part = "golden" -> {"golden", "gold"}
      [] OTHER -> {part}

\* phrase in norm: a substring test, so the phrase may start inside a
\* part and end inside another.
PhraseIn(phrase, norm) ==
    \E i \in 1..Len(norm) :
        LET n == Len(phrase)
        IN /\ i + n - 1 <= Len(norm)
           /\ phrase[1] \in Suffixes(norm[i])
           /\ phrase[n] \in Prefixes(norm[i + n - 1])
           /\ \A j \in 2..(n - 1) : norm[i + j - 1] = phrase[j]
           /\ n = 1 => norm[i] = phrase[1]

\* SPECIAL_COLOR_PHRASES: phrase |-> colours added.
SpecialPhrases ==
    { [phrase |-> <<"rose", " ", "gold">>, adds |-> {"rose gold", "gold"}],
      [phrase |-> <<"space", " ", "gray">>, adds |-> {"space gray", "gray"}],
      [phrase |-> <<"space", " ", "grey">>, adds |-> {"space gray", "gray"}],
      [phrase |-> <<"off", " ", "white">>, adds |-> {"off white", "white"}],
      [phrase |-> <<"see", " ", "through">>, adds |-> {"transparent"}],
      [phrase |-> <<"see", "-", "through">>, adds |-> {"transparent"}] }

\* f"{shade} {base}".
ShadePhrase(shade, base) == shade \o " " \o base

\* A single part that is a shade and a base written together.
JoinedShadeWord(part) ==
    CASE part = "lightblue" -> <<"light", "blue">>
      [] part = "darkgrey" -> <<"dark", "grey">>
      [] OTHER -> <<>>

\* The (shade, base) pairs SHADE_RE finds: a shade part, one blank, a base part.
ShadeSpaced(norm) ==
    { <<norm[i], norm[i + 2]>> : i \in { j \in 1..Len(norm) :
          j + 2 <= Len(norm) /\ norm[j] \in SHADES /\ norm[j + 1] = " "
          /\ norm[j + 2] \in ShadeBases } }

\* The pairs SHADE_JOINED_RE finds once the hyphens are removed: a chunk
\* that is exactly shade-base, or one part that spells both.
ShadeJoined(text) ==
    LET chunks == Normalized(text)
    IN { <<chunks[i][1], chunks[i][2]>> : i \in { j \in 1..Len(chunks) :
             Len(chunks[j]) = 2 /\ chunks[j][1] \in SHADES /\ chunks[j][2] \in ShadeBases } }
       \cup { JoinedShadeWord(chunks[i][1]) : i \in { j \in 1..Len(chunks) :
             Len(chunks[j]) = 1 /\ JoinedShadeWord(chunks[j][1]) # <<>> } }

ShadeColors(pairs) ==
    UNION { {ShadePhrase(pr[1], canon_color(pr[2])), canon_color(pr[2])} : pr \in pairs }

\* extract_colors(text, tokens, norm) as the set of colours; the code
\* returns it sorted (see SortedColors).
extract_colors(text, tokens) ==
    LET norm == normalize_text(text)
        special == UNION { sp.adds : sp \in { q \in SpecialPhrases : PhraseIn(q.phrase, norm) } }
        tokenLevel == { canon_color(t) : t \in { u \in Range(tokens) :
                          canon_color(u) \in BASE_COLORS \cup {"transparent", "off white"} } }
    IN special \cup ShadeColors(ShadeSpaced(norm)) \cup ShadeColors(ShadeJoined(text)) \cup tokenLevel

\* sorted(colors): the colours of the model in Python's string order.
ColorRank ==
    <<"black", "blue", "bright black", "bright blue", "bright gold", "bright gray",
      "bright white", "dark black", "dark blue", "dark gold", "dark gray", "dark white",
      "deep black", "deep blue", "deep gold", "deep gray", "deep white", "gold", "gray",
      "light black", "light blue", "light gold", "light gray", "light white", "neon black",
      "neon blue", "neon gold", "neon gray", "neon white", "off white", "pale black",
      "pale blue", "pale gold", "pale gray", "pale white", "rose gold", "space gray",
      "transparent", "white">>

SortedColors(colors) == SelectSeq(ColorRank, LAMBDA c : c \in colors)

PhraseScore_WeightOneMutant(itype, norm) == Cardinality({ph \in ITEM_PHRASES(itype) : PhraseIn(ph, norm)})

\* nlp.py lines 317-320: + 3 for each phrase of the category found in norm.
PhraseScore(itype, norm) == 3 * Cardinality({ph \in ITEM_PHRASES(itype) : PhraseIn(ph, norm)})

ItemScore(itype, tokens, norm) ==
    PhraseScore(itype, norm) + Cardinality(Range(tokens) \cap ITEM_SYNONYMS(itype))

PrefRank(itype) ==
    IF \E i \in 1..Len(Preference) : Preference[i] = itype
    THEN (CHOOSE i \in 1..Len(Preference) : Preference[i] = itype) - 1
    ELSE 10000

\* The loop over scores.items() of infer_item_type.
RECURSIVE BestItem(_, _, _, _, _)
BestItem(i, tokens, norm, best_type, best_score) ==
    IF i > Len(ItemOrder) THEN (IF best_score > 0 THEN best_type ELSE NoneVal)
    ELSE LET itype == ItemOrder[i]
             sc == ItemScore(itype, tokens, norm)
         IN IF sc > best_score THEN BestItem(i + 1, tokens, norm, itype, sc)
            ELSE IF sc = best_score /\ sc > 0 /\ PrefRank(itype) < PrefRank(best_type)
            THEN BestItem(i + 1, tokens, norm, itype, best_score)
            ELSE BestItem(i + 1, tokens, norm, best_type, best_score)

\* infer_item_type(text, tokens, norm).
infer_item_type(text, tokens) == BestItem(1, tokens, normalize_text(text), NoneVal, 0)

\* ---------------------------------------------------------------------
\* nlp.py: extract_identifiers, extract, dumps_extracted, loads_extracted
\* ---------------------------------------------------------------------

\* _hash_id(value): the first 16 hex characters of sha256("LFv1:" + value),
\* for the values the model's texts give rise to.
hash_id(value) ==
    CASE value = "phone:01712345678" -> "39e297c1cc25f492"
      [] value = "email:bob@mail.com" -> "8d6a51d2b328af10"
      [] value = "num:88001712345678" -> "947819e85db1af26"
      [] value = "num:01712345678" -> "ba089ac5f5e8fdf6"
      [] value = "num:1234567890123" -> "f6a549c47569b862"
      [] value = "phone:88001712345678" -> "f8a70c9607b56c6d"

\* The 10-20 digit runs of the model's vocabulary (LONG_DIGITS_RE).
LongDigitWords == {"01712345678", "88001712345678", "1234567890123"}

\* BD_PHONE_RE runs on the normalized text with blanks and hyphens taken
\* out, where a word boundary is left only at both ends: it matches when
\* the parts of the whole text spell one number.
PhoneOfParts(parts) ==
    CASE parts = <<"01712345678">> -> "01712345678"
      [] parts = <<"017", "1234", "5678">> -> "01712345678"
      [] parts = <<"88001712345678">> -> "88001712345678"
      [] OTHER -> NoneVal

\* sorted(...) of the digests of the model.
DigestRank ==
    <<"39e297c1cc25f492", "8d6a51d2b328af10", "947819e85db1af26", "ba089ac5f5e8fdf6",
      "f6a549c47569b862", "f8a70c9607b56c6d">>

\* m.group(0).lower() of an address.
LowerEmail(email) == IF email = "Bob@Mail.com" THEN "bob@mail.com" ELSE email

extract_identifiers_PlainMutant(text) ==
    LET parts == SelectSeq(Flatten(Normalized(text)), LAMBDA q : q # "")
        phone == PhoneOfParts(parts)
        ids == {"email:" \o LowerEmail(e) : e \in Range(Flatten(text)) \cap EmailWords}
               \cup (IF phone # NoneVal THEN {"phone:" \o phone} ELSE {})
               \cup {"num:" \o w : w \in Range(parts) \cap LongDigitWords}
    IN SelectSeq(<<"email:bob@mail.com", "num:01712345678", "num:1234567890123",
                   "num:88001712345678", "phone:01712345678", "phone:88001712345678">>,
                 LAMBDA x : x \in ids)

\* extract_identifiers(text): the addresses are looked for in the text as
\* typed, the numbers in the normalized text.
extract_identifiers(text) ==
    LET parts == SelectSeq(Flatten(Normalized(text)), LAMBDA q : q # "")
        phone == PhoneOfParts(parts)
        ids == {"email:" \o LowerEmail(e) : e \in Range(Flatten(text)) \cap EmailWords}
               \cup (IF phone # NoneVal THEN {"phone:" \o phone} ELSE {})
               \cup {"num:" \o w : w \in Range(parts) \cap LongDigitWords}
        digests == {hash_id(x) : x \in ids}
    IN SelectSeq(DigestRank, LAMBDA h : h \in digests)

\* sorted(...) over COMMON_BRANDS.
BrandRank == <<"apple", "casio", "iphone", "samsung">>

\* mark_words of extract, in the order sorted(set(unique_marks)) gives.
MarkWords ==
    << [canon |-> "crack", syns |-> {"crack", "cracked", "broken"}],
       [canon |-> "dent", syns |-> {"dent", "dented"}],
       [canon |-> "engraved", syns |-> {"engraved", "engraving", "etched"}],
       [canon |-> "lock", syns |-> {"lock", "locked"}],
       [canon |-> "scratch", syns |-> {"scratch", "scratched", "scratches"}],
       [canon |-> "sticker", syns |-> {"sticker", "stickers"}],
       [canon |-> "tear", syns |-> {"tear", "torn"}] >>

RECURSIVE MarksFrom(_, _)
MarksFrom(i, token_set) ==
    IF i > Len(MarkWords) THEN <<>>
    ELSE (IF token_set \cap MarkWords[i].syns # {} THEN <<MarkWords[i].canon>> ELSE <<>>)
         \o MarksFrom(i + 1, token_set)

\* The "contains ..." clause: what follows the first whole word
\* "contains" that has something after it, as one entry (the normalized
\* text has no comma left to split on).
Contained(norm) ==
    LET hits == { i \in 1..Len(norm) : norm[i] = "contains" /\ i < Len(norm) }
    IN IF hits = {} THEN <<>>
       ELSE LET i == CHOOSE j \in hits : \A h \in hits : j <= h
                from == IF norm[i + 1] = " " THEN i + 2 ELSE i + 1
            IN <<SubSeq(norm, from, Len(norm))>>

\* A stored extracted_json string: js tells what json.loads makes of it
\* ("obj" a JSON object, "invalid" not JSON, "nonobj" JSON that is no
\* object); the other fields are the object's entries (NoneVal or <<>>
\* for a missing one).
EmptyEx ==
    [js |-> "obj", tokens |-> <<>>, item_type |-> NoneVal, colors |-> <<>>, brand |-> NoneVal,
     unique_marks |-> <<>>, contained |-> <<>>, identifiers |-> <<>>]

\* extract(report_text), already serialized by dumps_extracted.
extract(text) ==
    LET toks == expand_tokens(tokenize(text))
        brands == SelectSeq(BrandRank, LAMBDA br : br \in Range(toks))
        item_type == infer_item_type(text, toks)
        tokens == IF item_type # NoneVal THEN AppendNew(toks, item_type) ELSE toks
    IN [js |-> "obj", tokens |-> tokens, item_type |-> item_type,
        colors |-> SortedColors(extract_colors(text, toks)),
        brand |-> IF brands # <<>> THEN brands[1] ELSE NoneVal,
        unique_marks |-> MarksFrom(1, Range(tokens)),
        contained |-> Contained(normalize_text(text)),
        identifiers |-> extract_identifiers(text)]

\* loads_extracted(s): {} when json.loads fails, else whatever it returns.
loads_extracted(s) == IF s.js = "invalid" THEN EmptyEx ELSE s

\* Python truth of an optional string.
Truthy(v) == v # NoneVal /\ v # ""

\* ---------------------------------------------------------------------
\* matching.py: compute_match
\* ---------------------------------------------------------------------

\* f"{title} {description} {location_text}" of a report row.
RowText(r) == r.title \o r.description \o r.location_text

\* The weights of compute_match, in hundredths.
W_TEXT == 55

W_ITEM_MATCH == 20

W_ITEM_DIFF == 5

W_COLOR_OVERLAP == 12

W_COLOR_DISJOINT == 3

W_BRAND_MATCH == 12

W_BRAND_DIFF == 2

W_LOC == 10

W_IDENT == 35

\* Reasons are emitted when a similarity exceeds these, in hundredths.
TEXT_REASON_MIN == 15

LOC_REASON_MIN == 20

\* The clamp [-0.5, 1.5], in hundredths.
SCORE_MIN == -50

SCORE_MAX == 150

Raised == [raised |-> TRUE, other_id |-> 0, score |-> 0, reasons |-> <<>>, text_sim |-> 0]

\* One step of compute_match: what it adds to the score (hundredths) and
\* the reason it appends (NoneVal for none).
Step(delta, reason) == [delta |-> delta, reason |-> reason]

\* matching.py lines 89-96.
ItemStep(a_ex, b_ex) ==
    IF Truthy(a_ex.item_type) /\ Truthy(b_ex.item_type)
    THEN IF a_ex.item_type = b_ex.item_type
         THEN Step(W_ITEM_MATCH, "item:match")
         ELSE Step(0 - W_ITEM_DIFF, "item:differ")
    ELSE Step(0, NoneVal)

\* matching.py lines 98-108.
ColorStep(a_ex, b_ex) ==
    LET a_colors == Range(a_ex.colors)
        b_colors == Range(b_ex.colors)
    IN IF a_colors # {} /\ b_colors # {}
       THEN IF a_colors \cap b_colors # {}
            THEN Step(W_COLOR_OVERLAP, "color:overlap")
            ELSE Step(0 - W_COLOR_DISJOINT, "color:disjoint")
       ELSE Step(0, NoneVal)

BrandStep_ReasonOnMismatchMutant(a_ex, b_ex) ==
    IF Truthy(a_ex.brand) /\ Truthy(b_ex.brand)
    THEN IF a_ex.brand = b_ex.brand
         THEN Step(W_BRAND_MATCH, "brand:match")
         ELSE Step(0 - W_BRAND_DIFF, "brand:differ")
    ELSE Step(0, NoneVal)

\* matching.py lines 110-116.
BrandStep(a_ex, b_ex) ==
    IF Truthy(a_ex.brand) /\ Truthy(b_ex.brand)
    THEN IF a_ex.brand = b_ex.brand
         THEN Step(W_BRAND_MATCH, "brand:match")
         ELSE Step(0 - W_BRAND_DIFF, NoneVal)
    ELSE Step(0, NoneVal)

TimeStep_NoRoleSwapMutant(a, b) == time_plausibility(a.event_time, b.event_time)

\* matching.py lines 126-130: the lost report's time is always the first
\* argument of time_plausibility.
TimeStep(a, b) ==
    IF a.kind = "lost" THEN time_plausibility(a.event_time, b.event_time)
    ELSE time_plausibility(b.event_time, a.event_time)

IdentStep_AlwaysMutant(a_ex, b_ex) ==
    IF a_ex.identifiers # <<>> /\ b_ex.identifiers # <<>> THEN Step(W_IDENT, "id") ELSE Step(0, NoneVal)

\* matching.py lines 135-140.
IdentStep(a_ex, b_ex) ==
    LET a_ids == Range(a_ex.identifiers)
        b_ids == Range(b_ex.identifiers)
    IN IF a_ids # {} /\ b_ids # {} /\ a_ids \cap b_ids # {}
       THEN Step(W_IDENT, "id")
       ELSE Step(0, NoneVal)

Clamp_NoUpperMutant(score) == Max(SCORE_MIN * JD, score)

\* matching.py line 143, in 1/(100*JD) units.
Clamp(score) == Max(SCORE_MIN * JD, Min(SCORE_MAX * JD, score))

AddReason(reasons, reason) == IF reason # NoneVal THEN Append(reasons, reason) ELSE reasons

\* compute_match(a, b): score in 1/(100*JD) units, the reasons by tag,
\* and the local text_sim.  It raises when a side's extracted_json
\* decodes to something that is no dict (.get) or when time_plausibility
\* raises.
compute_match(a, b) ==
    LET a_tokens == Range(tokenize(RowText(a)))
        b_tokens == Range(tokenize(RowText(b)))
        text_sim == jaccard(a_tokens, b_tokens)
        a_ex == loads_extracted(a.extracted_json)
        b_ex == loads_extracted(b.extracted_json)
    IN IF a_ex.js = "nonobj" \/ b_ex.js = "nonobj" THEN Raised
       ELSE
       LET score1 == W_TEXT * text_sim
           reasons1 == IF 100 * text_sim > TEXT_REASON_MIN * JD THEN <<"text">> ELSE <<>>
           item == ItemStep(a_ex, b_ex)
           score2 == score1 + item.delta * JD
           reasons2 == AddReason(reasons1, item.reason)
           color == ColorStep(a_ex, b_ex)
           score3 == score2 + color.delta * JD
           reasons3 == AddReason(reasons2, color.reason)
           brand == BrandStep(a_ex, b_ex)
           score4 == score3 + brand.delta * JD
           reasons4 == AddReason(reasons3, brand.reason)
           a_loc == Range(tokenize(a.location_text))
           b_loc == Range(tokenize(b.location_text))
           loc_sim == jaccard(a_loc, b_loc)
           score5 == score4 + W_LOC * loc_sim
           reasons5 == IF 100 * loc_sim > LOC_REASON_MIN * JD THEN Append(reasons4, "loc") ELSE reasons4
           t == TimeStep(a, b)
           score6 == score5 + t.delta * JD
           reasons6 == AddReason(reasons5, t.reason)
           ident == IdentStep(a_ex, b_ex)
           score7 == score6 + ident.delta * JD
           reasons7 == AddReason(reasons6, ident.reason)
       IN IF t.raised THEN Raised
          ELSE [raised |-> FALSE, other_id |-> b.id, score |-> Clamp(score7),
                reasons |-> reasons7, text_sim |-> text_sim]

\* ---------------------------------------------------------------------
\* Report rows (db.py, table reports) and the inputs drawn for them
\* ---------------------------------------------------------------------

Row(id, kind, title, description, location_text, event_time, extracted_json) ==
    [id |-> id, kind |-> kind, title |-> title, description |-> description,
     location_text |-> location_text, event_time |-> event_time,
     extracted_json |-> extracted_json, clarify_key |-> NoneVal, duplicate_of |-> 0,
     is_closed |-> 0]

\* The row submit stores for a text: extracted_json is extract of
\* title, description and location joined by line breaks.
SubmittedRow(id, kind, title, description, location_text, event_time) ==
    Row(id, kind, title, description, location_text, event_time,
        extract(title \o description \o location_text))

Opposite(kind) == IF kind = "lost" THEN "found" ELSE "lost"

Time(k, t) == [k |-> k, t |-> t]

Unparsed == {Time("none", 0), Time("empty", 0), Time("bad", 0)}

Thresholds == {HoursLowMin, 0, HoursMidMin, HoursHighMin}

\* The instants within TimeEps minutes of a threshold of time_plausibility.
TimePoints == {b + e : b \in Thresholds, e \in (0 - TimeEps)..TimeEps}

EventTimes == Unparsed \cup {Time("naive", t) : t \in TimePoints} \cup {Time("aware", t) : t \in TimePoints}

Parsed(dt) == dt.k \in {"naive", "aware"}

\* n words that belong to no vocabulary, each a chunk of its own.
Words(prefix, n) == [i \in 1..n |-> <<prefix \o ToString(i)>>]

Text1(word) == <<<<word>>>>

Idle == [fn |-> "idle"]

IsIdle == call.fn = "idle"

InitIdle ==
    /\ reports = <<>>
    /\ claims = <<>>
    /\ resp = Idle
    /\ call = Idle
    /\ ret = Idle

\* ---------------------------------------------------------------------
\* SpecTime: time_plausibility applied to every pair of event times
\* ---------------------------------------------------------------------

TimeCall ==
    /\ IsIdle
    /\ \E lost \in EventTimes, found \in EventTimes :
        /\ call' = [fn |-> "time_plausibility", lost |-> lost, found |-> found]
        /\ ret' = time_plausibility(lost, found)
    /\ UNCHANGED <<reports, claims, resp>>

SpecTime == InitIdle /\ [][TimeCall]_vars

\* C5: for two parseable timestamps whose difference d = found - lost
\* exists, time_plausibility returns -0.15 with a reason when d < -1 h,
\* +0.15 with a reason when 0 <= d <= 72 h, +0.05 with a reason when
\* 72 h < d <= 240 h, and (0, no reason) for -1 h <= d < 0 and d > 240 h.
C5_TimeBands ==
    (call.fn = "time_plausibility" /\ Parsed(call.lost) /\ Parsed(call.found) /\ ~ret.raised) =>
        LET d == call.found.t - call.lost.t
        IN /\ d < -60 => (ret.delta = -15 /\ ret.reason = "time:before")
           /\ (0 <= d /\ d <= 72 * 60) => (ret.delta = 15 /\ ret.reason = "time:plausible")
           /\ (72 * 60 < d /\ d <= 240 * 60) => (ret.delta = 5 /\ ret.reason = "time:wide")
           /\ ((-60 <= d /\ d < 0) \/ d > 240 * 60) => (ret.delta = 0 /\ ret.reason = NoneVal)

C5_Witness ==
    /\ call.fn = "time_plausibility"
    /\ Parsed(call.lost) /\ Parsed(call.found) /\ ~ret.raised
    /\ call.found.t - call.lost.t = -60
    /\ ret.delta = 0

\* C15: time_plausibility raises for no pair of event_time values, and
\* returns (0, no reason) whenever one of the two does not parse.
C15_TimeNeverRaises ==
    call.fn = "time_plausibility" =>
        /\ ~ret.raised
        /\ (~Parsed(call.lost) \/ ~Parsed(call.found)) => (ret.delta = 0 /\ ret.reason = NoneVal)

\* ---------------------------------------------------------------------
\* SpecMatch: compute_match applied to pairs of report rows
\* ---------------------------------------------------------------------

H1 == hash_id("num:01712345678")

H2 == hash_id("num:1234567890123")

\* Feature records of the current row (a) and of the candidate (b): each
\* attribute absent or set, the candidate's also set to another value.
CurFeatures ==
    { [EmptyEx EXCEPT !.item_type = it, !.colors = co, !.brand = br, !.identifiers = ids] :
        it \in {NoneVal, "phone"}, co \in {<<>>, <<"black">>},
        br \in {NoneVal, "apple"}, ids \in {<<>>, <<H1>>} }

CandFeatures ==
    { [EmptyEx EXCEPT !.item_type = it, !.colors = co, !.brand = br, !.identifiers = ids] :
        it \in {NoneVal, "phone", "wallet"}, co \in {<<>>, <<"black">>, <<"blue">>},
        br \in {NoneVal, "", "apple", "samsung"}, ids \in {<<>>, <<H1>>, <<H2>>} }

CurTimes == {Time("none", 0), Time("naive", 0)}

CandTimes ==
    {Time("none", 0), Time("naive", 2 * HoursLowMin), Time("naive", MinutesPerHour),
     Time("naive", HoursMidMin + MinutesPerHour), Time("aware", 0)}

Kinds == {"lost", "found"}

\* A title of one known word (or none) and n unknown ones.
Title(word, n) == (IF word = "" THEN <<>> ELSE Text1(word)) \o Words("w", n)

Place(word, n) == (IF word = "" THEN <<>> ELSE Text1(word)) \o Words("p", n)

JsonForms ==
    {extract(Text1("wallet")), EmptyEx, [EmptyEx EXCEPT !.js = "invalid"], [EmptyEx EXCEPT !.js = "nonobj"]}

Called(a, b) ==
    /\ call' = [fn |-> "compute_match", a |-> a, b |-> b]
    /\ ret' = compute_match(a, b)
    /\ UNCHANGED <<reports, claims, resp>>

\* Pairs that vary the feature records over two texts: the same title and
\* place on both sides, or nothing on the candidate's side.
MatchFeatures ==
    /\ IsIdle
    /\ \E k \in Kinds, ta \in CurTimes, fa \in CurFeatures, tb \in {<<>>, Text1("wallet")},
          tmb \in CandTimes, fb \in CandFeatures :
        Called(Row(-1, k, Text1("wallet"), <<>>, Text1("gate"), ta, fa),
               Row(1, Opposite(k), tb, <<>>, IF tb = <<>> THEN <<>> ELSE Text1("gate"), tmb, fb))

\* Pairs that vary the texts, each row as submit stores it.
MatchTexts ==
    /\ IsIdle
    /\ \E k \in Kinds, wa \in {"wallet", "cellphone", "the"}, pa \in {<<>>, Text1("gate")},
          ta \in CurTimes, w \in {"", "wallet", "mobile"}, g \in {"", "gate"},
          n \in 0..MaxTokens, m \in 0..MaxTokens, tmb \in CandTimes :
        /\ Len(tokenize(Title(w, n) \o Place(g, m))) <= MaxTokens
        /\ Called(SubmittedRow(-1, k, Text1(wa), <<>>, pa, ta),
                  SubmittedRow(1, Opposite(k), Title(w, n), <<>>, Place(g, m), tmb))

\* Pairs that vary what the stored extracted_json decodes to.
MatchJson ==
    /\ IsIdle
    /\ \E k \in Kinds, ta \in CurTimes, tmb \in CandTimes, ja \in JsonForms, jb \in JsonForms :
        Called(Row(-1, k, Text1("wallet"), <<>>, Text1("gate"), ta, ja),
               Row(1, Opposite(k), Text1("wallet"), <<>>, Text1("gate"), tmb, jb))

NextMatch == MatchFeatures \/ MatchTexts \/ MatchJson

SpecMatch == InitIdle /\ [][NextMatch]_vars

Returned == call.fn = "compute_match" /\ ~ret.raised

\* C1: whatever the two rows, the score compute_match returns lies in
\* the closed interval [-0.5, 1.5].
C1_ScoreClamped ==
    Returned => (-50 * JD <= ret.score /\ ret.score <= 150 * JD)

\* Every signal agrees, so the unclamped sum is 1.59.
C1_Witness ==
    /\ Returned
    /\ ret.reasons = <<"text", "item:match", "color:overlap", "brand:match", "loc", "time:plausible", "id">>
    /\ ret.score = 150 * JD

\* The token set of a row's title, description and location text.
RawTokens(r) == Range(tokenize(RowText(r)))

LocTokens(r) == Range(tokenize(r.location_text))

\* The decoded feature record of a row that compute_match accepted.
Features(r) == loads_extracted(r.extracted_json)

\* |x \cap y| / |x \cup y| in 1/JD units, 0 for two empty sets.
Similarity(x, y) ==
    IF x \cup y = {} THEN 0 ELSE (Cardinality(x \cap y) * JD) \div Cardinality(x \cup y)

IsSet(v) == v \notin {NoneVal, ""}

C2_ItemTerm(fa, fb) ==
    IF IsSet(fa.item_type) /\ IsSet(fb.item_type)
    THEN (IF fa.item_type = fb.item_type THEN 20 ELSE -5) ELSE 0

C2_ColorTerm(fa, fb) ==
    IF fa.colors # <<>> /\ fb.colors # <<>>
    THEN (IF \E c \in Range(fa.colors) : c \in Range(fb.colors) THEN 12 ELSE -3) ELSE 0

C2_BrandTerm(fa, fb) ==
    IF IsSet(fa.brand) /\ IsSet(fb.brand) THEN (IF fa.brand = fb.brand THEN 12 ELSE -2) ELSE 0

C2_IdentTerm(fa, fb) ==
    IF \E h \in Range(fa.identifiers) : h \in Range(fb.identifiers) THEN 35 ELSE 0

C2_Sum(a, b) ==
    55 * Similarity(RawTokens(a), RawTokens(b))
    + JD * (C2_ItemTerm(Features(a), Features(b)) + C2_ColorTerm(Features(a), Features(b))
            + C2_BrandTerm(Features(a), Features(b)) + C2_IdentTerm(Features(a), Features(b))
            + TimeStep(a, b).delta)
    + 10 * Similarity(LocTokens(a), LocTokens(b))

\* C2: the score is the sum of the seven terms (0.55 x text Jaccard, item
\* type +0.20/-0.05, colours +0.12/-0.03, brand +0.12/-0.02, 0.10 x
\* location Jaccard, the time delta, identifiers +0.35), clamped to
\* [-0.5, 1.5].
C2_ScoreIsClampedSum ==
    Returned =>
        LET sum == C2_Sum(call.a, call.b)
        IN ret.score = (IF sum < -50 * JD THEN -50 * JD ELSE IF sum > 150 * JD THEN 150 * JD ELSE sum)

\* A pair where the brands differ, the colours are disjoint, the item
\* types differ and the identifier sets are both set but disjoint.
C2_Witness ==
    /\ Returned
    /\ C2_ItemTerm(Features(call.a), Features(call.b)) = -5
    /\ C2_ColorTerm(Features(call.a), Features(call.b)) = -3
    /\ C2_BrandTerm(Features(call.a), Features(call.b)) = -2
    /\ Features(call.a).identifiers # <<>> /\ Features(call.b).identifiers # <<>>
    /\ C2_IdentTerm(Features(call.a), Features(call.b)) = 0
    /\ ret.score = C2_Sum(call.a, call.b)
    /\ ret.score < 0

\* The place of a reason's signal in the fixed order text, item type,
\* colour, brand, location, time, identifier.
SignalOf(reason) ==
    CASE reason = "text" -> 1
      [] reason \in {"item:match", "item:differ"} -> 2
      [] reason \in {"color:overlap", "color:disjoint"} -> 3
      [] reason \in {"brand:match", "brand:differ"} -> 4
      [] reason = "loc" -> 5
      [] reason \in {"time:before", "time:plausible", "time:wide"} -> 6
      [] reason = "id" -> 7
      [] OTHER -> 0

C3_Fired(sig, a, b) ==
    LET fa == Features(a)
        fb == Features(b)
    IN CASE sig = 1 -> 100 * Cardinality(RawTokens(a) \cap RawTokens(b))
                          > 15 * Cardinality(RawTokens(a) \cup RawTokens(b))
         [] sig = 2 -> IsSet(fa.item_type) /\ IsSet(fb.item_type)
         [] sig = 3 -> fa.colors # <<>> /\ fb.colors # <<>>
         [] sig = 4 -> IsSet(fa.brand) /\ IsSet(fb.brand) /\ fa.brand = fb.brand
         [] sig = 5 -> 100 * Cardinality(LocTokens(a) \cap LocTokens(b))
                          > 20 * Cardinality(LocTokens(a) \cup LocTokens(b))
         [] sig = 6 -> TimeStep(a, b).reason # NoneVal
         [] sig = 7 -> Range(fa.identifiers) \cap Range(fb.identifiers) # {}

\* C3: the reasons follow the fixed order of the signals, one entry at
\* most per signal, and a signal has an entry exactly when it fired (a
\* brand mismatch adds none).
C3_ReasonsFollowSignals ==
    Returned =>
        /\ \A i \in 1..Len(ret.reasons) : SignalOf(ret.reasons[i]) \in 1..7
        /\ \A i \in 1..Len(ret.reasons), j \in 1..Len(ret.reasons) :
              i < j => SignalOf(ret.reasons[i]) < SignalOf(ret.reasons[j])
        /\ \A sig \in 1..7 :
              (\E i \in 1..Len(ret.reasons) : SignalOf(ret.reasons[i]) = sig)
                  <=> C3_Fired(sig, call.a, call.b)

\* Both brands set and different: the score drops, no reason is added.
C3_Witness ==
    /\ Returned
    /\ IsSet(Features(call.a).brand) /\ IsSet(Features(call.b).brand)
    /\ Features(call.a).brand # Features(call.b).brand
    /\ ret.reasons = <<"text", "item:differ", "color:disjoint", "loc", "time:wide">>

\* The tokens the text term would use if it preferred the stored ones.
C4_Tokens(r) ==
    IF r.extracted_json.js = "obj" /\ r.extracted_json.tokens # <<>>
    THEN Range(r.extracted_json.tokens)
    ELSE RawTokens(r)

\* C4: the text similarity is the Jaccard similarity of the tokens stored
\* in each side's feature record, the raw text being tokenized again only
\* for a side that stores none.
C4_TextTermUsesStoredTokens ==
    Returned => ret.text_sim = Similarity(C4_Tokens(call.a), C4_Tokens(call.b))

\* C6: for a lost report L and a found report F, compute_match(L, F) and
\* compute_match(F, L) return the same score.
C6_SwapSameScore ==
    (Returned /\ call.a.kind = "lost" /\ call.b.kind = "found") =>
        LET swapped == compute_match(call.b, call.a)
        IN ~swapped.raised /\ swapped.score = ret.score

\* The found report is dated more than an hour before the lost one: the
\* time term is -0.15 whichever of the two is the current row.
C6_Witness ==
    /\ Returned /\ call.a.kind = "lost" /\ call.b.kind = "found"
    /\ Parsed(call.a.event_time) /\ Parsed(call.b.event_time)
    /\ call.b.event_time.t < call.a.event_time.t + HoursLowMin
    /\ \E i \in 1..Len(ret.reasons) : ret.reasons[i] = "time:before"
    /\ compute_match(call.b, call.a).score = ret.score

\* The stored string is not JSON, or is JSON that is no object.
Malformed(r) == r.extracted_json.js \in {"invalid", "nonobj"}

\* The row with an empty record in place of a malformed one.
C14_Repaired(r) == IF Malformed(r) THEN [r EXCEPT !.extracted_json = EmptyEx] ELSE r

\* C14: when the feature record of either row is malformed, compute_match
\* returns what it returns with an empty record on that side (stated for
\* the pairs whose event times can be compared).
C14_MalformedRecordIsEmpty ==
    (/\ call.fn = "compute_match"
     /\ Malformed(call.a) \/ Malformed(call.b)
     /\ ~TimeStep(call.a, call.b).raised)
        => /\ ~ret.raised
           /\ ret = compute_match(C14_Repaired(call.a), C14_Repaired(call.b))

\* ---------------------------------------------------------------------
\* matching.py: retrieve_candidates_tfidf, rank_matches
\* ---------------------------------------------------------------------

\* rank_matches passes top_n=200.
TopN == 200

Take_FromSecondMutant(seq, n) == SubSeq(seq, 2, Min(n + 1, Len(seq)))

\* seq[:n] for n >= 0.
Take(seq, n) == SubSeq(seq, 1, Min(n, Len(seq)))

\* TfidfVectorizer finds no term in any of the texts and raises.
NoTerms(current, candidates) ==
    /\ Flatten(RowText(current)) = <<>>
    /\ \A i \in 1..Len(candidates) : Flatten(RowText(candidates[i])) = <<>>

\* retrieve_candidates_tfidf(current, candidates, top_n).  has_sklearn is
\* the module's _HAS_SKLEARN; order is sims.argsort()[::-1], a permutation
\* of the candidates' positions fixed by the floating-point similarities.
retrieve_candidates_tfidf(current, candidates, top_n, has_sklearn, order) ==
    IF candidates = <<>> THEN [raised |-> FALSE, short |-> <<>>]
    ELSE IF ~has_sklearn THEN [raised |-> FALSE, short |-> Take(candidates, top_n)]
    ELSE IF NoTerms(current, candidates) THEN [raised |-> TRUE, short |-> <<>>]
    ELSE [raised |-> FALSE,
          short |-> Take([i \in 1..Len(candidates) |-> candidates[order[i]]], top_n)]

SortedPlace_TiesReversedMutant(scored, i) ==
    1 + Cardinality({j \in 1..Len(scored) :
                        \/ scored[j].score > scored[i].score
                        \/ scored[j].score = scored[i].score /\ j > i})

\* The place scored.sort(key=score, reverse=True) gives to scored[i]: the
\* sort is stable, so it comes after the elements that score more and
\* after the earlier elements that score the same.
SortedPlace(scored, i) ==
    1 + Cardinality({j \in 1..Len(scored) :
                        \/ scored[j].score > scored[i].score
                        \/ scored[j].score = scored[i].score /\ j < i})

\* The list held as a tuple, each element evaluated once.
AsList(seq) == seq \o <<>>

\* The list that has each scored[i] at places[i].
Placed(scored, places) ==
    [p \in 1..Len(scored) |-> scored[CHOOSE i \in 1..Len(scored) : places[i] = p]]

SortDesc(scored) == Placed(scored, AsList([i \in 1..Len(scored) |-> SortedPlace(scored, i)]))

RaisedRank == [raised |-> TRUE, results |-> <<>>]

\* rank_matches(current, candidates, k) for k >= 0.
rank_matches(current, candidates, k, has_sklearn, order) ==
    LET got == retrieve_candidates_tfidf(current, candidates, TopN, has_sklearn, order)
        short == got.short
        scored == AsList([i \in 1..Len(short) |-> compute_match(current, short[i])])
    IN IF got.raised \/ \E i \in 1..Len(short) : scored[i].raised THEN RaisedRank
       ELSE [raised |-> FALSE, results |-> Take(SortDesc(scored), k)]

\* ---------------------------------------------------------------------
\* SpecRank: rank_matches applied to lists of candidate rows
\* ---------------------------------------------------------------------

\* Bound on the length of the short candidate lists.
MaxCands == 3

\* The rows the candidate lists are made of, as submit stores them: three
\* that score differently against a lost wallet at the gate, one without
\* any text, one whose time makes compute_match raise.
RankPool ==
    << SubmittedRow(0, "found", Text1("wallet"), <<>>, Text1("gate"), Time("none", 0)),
       SubmittedRow(0, "found", Text1("wallet"), <<>>, <<>>, Time("none", 0)),
       SubmittedRow(0, "found", Text1("mobile"), <<>>, Text1("gate"), Time("none", 0)),
       SubmittedRow(0, "found", <<>>, <<>>, <<>>, Time("none", 0)),
       SubmittedRow(0, "found", Text1("wallet"), <<>>, Text1("gate"), Time("aware", 0)) >>

\* The shapes that never make compute_match raise.
QuietShapes == Len(RankPool) - 2

RankCurrents ==
    { SubmittedRow(-1, "lost", Text1("wallet"), <<>>, Text1("gate"), Time("naive", 0)),
      SubmittedRow(-1, "lost", <<>>, <<>>, <<>>, Time("none", 0)) }

\* The candidate list whose i-th row has the shape shapes[i] and the id i.
Candidates(shapes) == [i \in 1..Len(shapes) |-> [RankPool[shapes[i]] EXCEPT !.id = i]]

Perms(n) == {f \in [1..n -> 1..n] : \A i \in 1..n, j \in 1..n : f[i] = f[j] => i = j}

Identity(n) == [i \in 1..n |-> i]

Reverse(n) == [i \in 1..n |-> n + 1 - i]

\* A list of n rows that repeats the quiet shapes with the given stride.
Patterned(n, stride) == [i \in 1..n |-> ((i * stride) % QuietShapes) + 1]

RankCalled(current, shapes, k, has_sklearn, order) ==
    /\ call' = [fn |-> "rank_matches", current |-> current, candidates |-> Candidates(shapes),
                k |-> k, has_sklearn |-> has_sklearn, order |-> order]
    /\ ret' = rank_matches(current, Candidates(shapes), k, has_sklearn, order)
    /\ UNCHANGED <<reports, claims, resp>>

\* Every list of at most MaxCands rows, every k, every shortlist order.
RankShort ==
    /\ IsIdle
    /\ \E current \in RankCurrents, n \in 0..MaxCands, k \in 0..(MaxCands + 1), has_sklearn \in BOOLEAN :
        \E shapes \in [1..n -> 1..Len(RankPool)],
           order \in (IF has_sklearn THEN Perms(n) ELSE {Identity(n)}) :
            RankCalled(current, shapes, k, has_sklearn, order)

\* Lists about as long as the shortlist bound.
RankLong ==
    /\ IsIdle
    /\ \E current \in RankCurrents, n \in {TopN - 1, TopN, TopN + 1, TopN + MaxCands},
          stride \in 1..3, k \in {0, 5, TopN + 1}, has_sklearn \in BOOLEAN :
        \E order \in (IF has_sklearn THEN {Identity(n), Reverse(n)} ELSE {Identity(n)}) :
            RankCalled(current, Patterned(n, stride), k, has_sklearn, order)

NextRank == RankShort \/ RankLong

SpecRank == InitIdle /\ [][NextRank]_vars

RankReturned == call.fn = "rank_matches" /\ ~ret.raised

\* The shortlist rank_matches scored.
Shortlist ==
    retrieve_candidates_tfidf(call.current, call.candidates, TopN, call.has_sklearn, call.order).short

\* The position in seq of the row with the given id (0 for none).
PosOf(seq, id) ==
    IF \E j \in 1..Len(seq) : seq[j].id = id
    THEN CHOOSE j \in 1..Len(seq) : seq[j].id = id
    ELSE 0

\* C7: rank_matches returns at most k results, each the score of a
\* distinct candidate of a shortlist of at most 200 of the candidates, in
\* non-increasing score order, results of equal score in the order their
\* candidates have in the shortlist.  Order and ties are stated on
\* neighbours: in a non-increasing sequence equal scores are contiguous,
\* so this is the same as stating them on every pair.
C7_RankedResults ==
    RankReturned =>
        LET res == ret.results
            short == Shortlist
        IN /\ Len(res) <= call.k
           /\ Len(short) <= 200
           /\ \A j \in 1..Len(short) : PosOf(call.candidates, short[j].id) > 0
           /\ Cardinality({short[j].id : j \in 1..Len(short)}) = Len(short)
           /\ \A i \in 1..Len(res) :
                /\ PosOf(short, res[i].other_id) > 0
                /\ res[i] = compute_match(call.current, short[PosOf(short, res[i].other_id)])
           /\ Cardinality({res[i].other_id : i \in 1..Len(res)}) = Len(res)
           /\ \A i \in 1..(Len(res) - 1) :
                /\ res[i].score >= res[i + 1].score
                /\ res[i].score = res[i + 1].score =>
                      PosOf(short, res[i].other_id) < PosOf(short, res[i + 1].other_id)

\* More than 200 candidates, shortlisted in reverse: the first two of the
\* k results tie, the later candidate first.
C7_Witness ==
    /\ RankReturned
    /\ Len(call.candidates) > 200
    /\ Len(ret.results) = call.k /\ call.k >= 2
    /\ ret.results[1].score = ret.results[2].score
    /\ ret.results[1].other_id > ret.results[2].other_id
    /\ \E i \in 1..Len(call.candidates) : PosOf(Shortlist, call.candidates[i].id) = 0

\* ---------------------------------------------------------------------
\* SpecShortlist: retrieve_candidates_tfidf applied to lists of rows
\* ---------------------------------------------------------------------

ShortlistCall ==
    /\ IsIdle
    /\ \E current \in RankCurrents, n \in 0..MaxCands, top_n \in 0..(MaxCands + 1),
          has_sklearn \in BOOLEAN :
        \E shapes \in [1..n -> 1..Len(RankPool)],
           order \in (IF has_sklearn THEN Perms(n) ELSE {Identity(n)}) :
            /\ call' = [fn |-> "retrieve_candidates_tfidf", current |-> current,
                        candidates |-> Candidates(shapes), top_n |-> top_n,
                        has_sklearn |-> has_sklearn, order |-> order]
            /\ ret' = retrieve_candidates_tfidf(current, Candidates(shapes), top_n, has_sklearn, order)
    /\ UNCHANGED <<reports, claims, resp>>

SpecShortlist == InitIdle /\ [][ShortlistCall]_vars

\* C12: retrieve_candidates_tfidf never raises; when the backend is absent
\* or fails on the texts it returns the first top_n candidates.
C12_ShortlistNeverRaises ==
    call.fn = "retrieve_candidates_tfidf" =>
        /\ ~ret.raised
        /\ (~call.has_sklearn \/ NoTerms(call.current, call.candidates)) =>
              ret.short = SubSeq(call.candidates, 1, Min(call.top_n, Len(call.candidates)))

\* C13: without the backend the shortlist is the first min(top_n, n) of
\* the n candidates, each as it was given and in the given order,
\* whatever the current row; no candidate gives the empty list.
C13_FallbackIsPrefix ==
    (call.fn = "retrieve_candidates_tfidf" /\ ~call.has_sklearn) =>
        /\ ~ret.raised
        /\ Len(ret.short) = Min(call.top_n, Len(call.candidates))
        /\ \A i \in 1..Len(ret.short) : ret.short[i] = call.candidates[i]
        /\ \A other \in RankCurrents :
              retrieve_candidates_tfidf(other, call.candidates, call.top_n, FALSE, call.order) = ret
        /\ call.candidates = <<>> => ret.short = <<>>

\* Three different candidates cut to the first two.
C13_Witness ==
    /\ call.fn = "retrieve_candidates_tfidf" /\ ~call.has_sklearn
    /\ Len(call.candidates) = 3 /\ call.top_n = 2
    /\ call.candidates[1].title # call.candidates[2].title
    /\ call.candidates[2].location_text # call.candidates[3].location_text
    /\ ret.short = <<call.candidates[1], call.candidates[2]>>

\* ---------------------------------------------------------------------
\* db.py: list_reports; main.py: submit
\* ---------------------------------------------------------------------

\* list_reports(kind, include_closed) over the rows of the table reports:
\* the rows of the kind, the closed ones left out unless asked for,
\* ORDER BY id DESC.
list_reports(table, kind, include_closed) ==
    LET rows == SelectSeq(table, LAMBDA r : r.kind = kind /\ (include_closed \/ r.is_closed = 0))
    IN [i \in 1..Len(rows) |-> rows[Len(rows) + 1 - i]]

\* submit scans same_kind[:200].
RecentLimit == 200

\* A submission is a duplicate from 0.85 on, in hundredths.
DUP_THRESHOLD == 85

\* best_score and best_id of the scan; none stands for best_score is None.
NoBest == [raised |-> FALSE, none |-> TRUE, score |-> 0, id |-> 0]

Better_OrEqualMutant(score, best_score) == score >= best_score

\* main.py line 286: m.score > best_score.
Better(score, best_score) == score > best_score

\* The loop of main.py lines 284-288 ends with the i-th row as the best:
\* its score replaced the best of the rows before it, and no score after
\* it replaced it.
EndsWith(scored, i) ==
    /\ \A j \in 1..(i - 1) : Better(scored[i].score, scored[j].score)
    /\ \A j \in (i + 1)..Len(scored) : ~Better(scored[j].score, scored[i].score)

\* The loop over a non-empty recent, scored[i] being compute_match of
\* the i-th row: it raises when a compute_match does.
Scan(recent, scored) ==
    IF \E i \in 1..Len(scored) : scored[i].raised THEN [NoBest EXCEPT !.raised = TRUE]
    ELSE LET i == CHOOSE i \in 1..Len(scored) : EndsWith(scored, i)
         IN [raised |-> FALSE, none |-> FALSE, score |-> scored[i].score, id |-> recent[i].id]

\* kind.strip().lower() on the spellings the requests use.
NormKind(kind) == IF kind = " Lost" THEN "lost" ELSE kind

\* event_time.strip() if event_time else None: a missing or empty field
\* becomes None, a field of blanks the empty string.
NormTime(event_time) ==
    CASE event_time.k \in {"none", "empty"} -> Time("none", 0)
      [] event_time.k = "blank" -> Time("empty", 0)
      [] OTHER -> event_time

Response(status, to, id) == [status |-> status, to |-> to, id |-> id]

\* The handler of POST /submit on the table: the table it leaves and the
\* response.  u is current_user(request), NoneVal without a session.  A
\* raise of compute_match leaves the handler: the framework answers 500.
\* duplicate_of 0 stands for NULL (ids start at 1).  The columns no
\* modelled operation reads (created_at, owner_user_id, the hand-over
\* columns) are left out.
submit(table, u, kind0, title, description, location_text, event_time0) ==
    LET kind == NormKind(kind0)
        event_time == NormTime(event_time0)
        ex == extract(title \o description \o location_text)
        same_kind == list_reports(table, kind, FALSE)
        dummy_current == Row(-1, kind, title, description, location_text, event_time, ex)
        recent == Take(same_kind, RecentLimit)
        scan == IF same_kind # <<>>
                THEN Scan(recent, AsList([i \in 1..Len(recent) |-> compute_match(dummy_current, recent[i])]))
                ELSE NoBest
        duplicate_of == IF ~scan.none /\ scan.score >= DUP_THRESHOLD * JD THEN scan.id ELSE 0
        rid == Len(table) + 1
    IN IF u = NoneVal THEN [reports |-> table, resp |-> Response(303, "login", 0)]
       ELSE IF kind \notin {"lost", "found"} THEN [reports |-> table, resp |-> Response(400, "", 0)]
       ELSE IF scan.raised THEN [reports |-> table, resp |-> Response(500, "", 0)]
       ELSE [reports |-> Append(table, [dummy_current EXCEPT !.id = rid, !.duplicate_of = duplicate_of]),
             resp |-> Response(303, "report", rid)]

\* ---------------------------------------------------------------------
\* SpecSubmit: submissions to tables of reports
\* ---------------------------------------------------------------------

\* Submissions go on while the table has fewer rows than this.
MaxReports == 2

BlackWallet == <<<<"black">>, <<"wallet">>>>

Gate == Text1("gate")

\* Two hours.
Later == 2 * MinutesPerHour

\* The rows of the initial tables: black wallets at the gate, open or
\* closed (settle closes both reports of a claim).
StoredRows ==
    { [SubmittedRow(0, kind, BlackWallet, <<>>, Gate, event_time) EXCEPT !.is_closed = is_closed] :
        kind \in Kinds, event_time \in {Time("naive", 0)}, is_closed \in {0, 1} }

\* A table of n rows with the ids 1..n.
Numbered(rows) == [i \in 1..Len(rows) |-> [rows[i] EXCEPT !.id = i]]

ShortTables ==
    UNION { {Numbered(rows) : rows \in [1..n -> StoredRows]} : n \in 0..(MaxReports - 1) }

WalletRow == SubmittedRow(0, "lost", BlackWallet, <<>>, Gate, Time("none", 0))

FillerRow == SubmittedRow(0, "lost", Text1("mobile"), <<>>, <<>>, Time("none", 0))

\* A table of n lost reports: black wallets at the positions in hits, one
\* closed report at closed_at and one found report at found_at (0: none).
LongTable(n, hits, closed_at, found_at) ==
    [i \in 1..n |->
        [(IF i \in hits THEN WalletRow ELSE FillerRow) EXCEPT
            !.id = i,
            !.kind = IF i = found_at THEN "found" ELSE "lost",
            !.is_closed = IF i = closed_at THEN 1 ELSE 0]]

\* Tables about as long as the scan's bound.
LongTables ==
    UNION { { LongTable(n, hits, closed_at, found_at) :
                hits \in {{}, {1}, {1, 2}}, closed_at \in {0, 2, n}, found_at \in {0, 3} } :
            n \in {RecentLimit - 1, RecentLimit, RecentLimit + 1, RecentLimit + MaxReports} }

InitSubmit ==
    /\ reports \in ShortTables \cup LongTables
    /\ claims = <<>>
    /\ resp = Idle
    /\ call = Idle
    /\ ret = Idle

Submitted(u, kind, title, description, location_text, event_time) ==
    /\ call' = [fn |-> "submit", u |-> u, kind |-> kind, title |-> title,
                description |-> description, location_text |-> location_text,
                event_time |-> event_time]
    /\ \E out \in {submit(reports, u, kind, title, description, location_text, event_time)} :
        /\ reports' = out.reports
        /\ resp' = out.resp
    /\ UNCHANGED <<claims, ret>>

\* Any request, while the table is short.
SubmitShort ==
    /\ Len(reports) < MaxReports
    /\ \E u \in {NoneVal, "user"}, kind \in {"lost", "found", " Lost", "other"},
          text \in {<<BlackWallet, Gate>>, <<Text1("mobile"), Gate>>},
          event_time \in {Time("none", 0), Time("blank", 0), Time("naive", Later), Time("aware", 0)} :
        Submitted(u, kind, text[1], <<>>, text[2], event_time)

\* One black wallet more, once, on a long table.
SubmitLong ==
    /\ IsIdle
    /\ Len(reports) >= RecentLimit - 1
    /\ \E kind \in Kinds, event_time \in {Time("none", 0), Time("naive", Later)} :
        Submitted("user", kind, BlackWallet, <<>>, Gate, event_time)

NextSubmit == SubmitShort \/ SubmitLong

SpecSubmit == InitSubmit /\ [][NextSubmit]_vars

\* The last request stored a report: the new row and the table before.
Stored == call.fn = "submit" /\ resp.status = 303 /\ resp.to = "report"

NewRow == reports[Len(reports)]

Before == SubSeq(reports, 1, Len(reports) - 1)

\* The score of the row with the given id against the new submission.
DupScore(id) == compute_match([NewRow EXCEPT !.id = -1, !.duplicate_of = 0], Before[id]).score

\* The up to 200 largest of a set of ids.
MostRecent(ids) == {id \in ids : Cardinality({x \in ids : x > id}) < 200}

SameKind == {id \in 1..Len(Before) : Before[id].kind = NewRow.kind}

OpenSameKind == {id \in SameKind : Before[id].is_closed = 0}

\* duplicate_of is set exactly when a report of scanned scores 0.85 or
\* more, to the most recent of those that score most.
DuplicateOfFollows(scanned) ==
    IF \E id \in scanned : DupScore(id) >= 85 * JD
    THEN /\ NewRow.duplicate_of \in scanned
         /\ \A id \in scanned :
              \/ DupScore(id) < DupScore(NewRow.duplicate_of)
              \/ DupScore(id) = DupScore(NewRow.duplicate_of) /\ id <= NewRow.duplicate_of
    ELSE NewRow.duplicate_of = 0

\* C8 as stated: the reports scanned are the up to 200 most recent
\* reports of the same kind.
C8_DuplicateOfAmongRecent ==
    Stored => DuplicateOfFollows(MostRecent(SameKind))

\* C8: a stored submission's duplicate_of is set exactly when one of the
\* up to 200 most recent same-kind reports that are not closed scores
\* 0.85 or more against it; it is then the id of the most recent of the
\* reports that score most, and it is null otherwise.
C8_DuplicateOfAmongOpen ==
    Stored => DuplicateOfFollows(MostRecent(OpenSameKind))

\* More than 200 same-kind reports, one of the recent ones closed, and
\* two that tie at the top: the more recent one is the duplicate.
C8_Witness ==
    /\ Stored
    /\ Cardinality(SameKind) > 200
    /\ OpenSameKind # SameKind
    /\ NewRow.duplicate_of = 2
    /\ DupScore(1) = DupScore(2)
    /\ 1 \in MostRecent(OpenSameKind) /\ 1 \notin MostRecent(SameKind)

\* C9: a lost "black wallet" submitted while an open lost report with the
\* same title, description and location exists is stored with a non-null
\* duplicate id, whatever the two event times.
C9_IdenticalIsDuplicate ==
    (/\ Stored
     /\ NewRow.kind = "lost"
     /\ NewRow.title = BlackWallet
     /\ \E id \in OpenSameKind :
          /\ Before[id].title = NewRow.title
          /\ Before[id].description = NewRow.description
          /\ Before[id].location_text = NewRow.location_text)
        => NewRow.duplicate_of # 0

\* ---------------------------------------------------------------------
\* matching.py: choose_clarifying_question
\* ---------------------------------------------------------------------

\* The catalog of fields, in order.
QuestionFields == <<"brand", "colors", "item_type", "unique_marks">>

QuestionText(key) ==
    CASE key = "brand" -> "What brand is it? (e.g., Samsung, Apple, Xiaomi)"
      [] key = "colors" -> "What color is it? (e.g., black/blue/red/transparent)"
      [] key = "item_type" -> "What is the item type? (phone/wallet/keys/bag/umbrella/etc.)"
      [] key = "unique_marks" -> "Any unique mark? (sticker / scratch / engraved text)"
      [] OTHER -> NoneVal

\* ex.get(key), a list as a tuple.
FieldOf(ex, key) ==
    CASE key = "brand" -> ex.brand
      [] key = "colors" -> ex.colors
      [] key = "item_type" -> ex.item_type
      [] key = "unique_marks" -> ex.unique_marks

\* Python truth of ex.get(key).
FieldSet(ex, key) ==
    IF key \in {"brand", "item_type"} THEN Truthy(FieldOf(ex, key)) ELSE FieldOf(ex, key) # <<>>

\* len(values) of matching.py lines 200-208 for the field key.
Diversity(key, top_candidates) ==
    Cardinality({ FieldOf(loads_extracted(top_candidates[i].extracted_json), key) :
                    i \in {j \in 1..Len(top_candidates) :
                              FieldSet(loads_extracted(top_candidates[j].extracted_json), key)} })

MoreDiverse_OrEqualMutant(diversity, best_diversity) == diversity >= best_diversity

\* matching.py line 209.
MoreDiverse(diversity, best_diversity) == diversity > best_diversity

NoField == [key |-> NoneVal, diversity |-> -1]

\* The loop of matching.py lines 199-212 from the i-th remaining field on.
RECURSIVE BestField(_, _, _, _)
BestField(fields, i, top_candidates, best) ==
    IF i > Len(fields) THEN best
    ELSE BestField(fields, i + 1, top_candidates,
                   IF MoreDiverse(Diversity(fields[i], top_candidates), best.diversity)
                   THEN [key |-> fields[i], diversity |-> Diversity(fields[i], top_candidates)]
                   ELSE best)

NoQuestion == [raised |-> FALSE, key |-> NoneVal, question |-> NoneVal]

\* choose_clarifying_question(current, top_candidates): the key and the
\* text of the question, NoneVal for both when it returns None.  It
\* raises when a stored record it reads decodes to something that is no
\* dict.
choose_clarifying_question(current, top_candidates) ==
    LET cur_ex == loads_extracted(current.extracted_json)
    IN IF cur_ex.js = "nonobj" THEN [NoQuestion EXCEPT !.raised = TRUE]
       ELSE LET fields == SelectSeq(QuestionFields, LAMBDA k : ~FieldSet(cur_ex, k))
                best == BestField(fields, 1, top_candidates, NoField)
            IN IF fields = <<>> \/ top_candidates = <<>> THEN NoQuestion
               ELSE IF \E i \in 1..Len(top_candidates) : top_candidates[i].extracted_json.js = "nonobj"
               THEN [NoQuestion EXCEPT !.raised = TRUE]
               ELSE IF best.key # NoneVal /\ best.diversity >= 2
               THEN [raised |-> FALSE, key |-> best.key, question |-> QuestionText(best.key)]
               ELSE NoQuestion

\* ---------------------------------------------------------------------
\* SpecQuestion: choose_clarifying_question applied to lists of rows
\* ---------------------------------------------------------------------

\* The current row's record: every field absent or set, or a string that
\* is no JSON object.
QuestionCurrents ==
    { [EmptyEx EXCEPT !.brand = br, !.colors = co, !.item_type = it, !.unique_marks = um] :
        br \in {NoneVal, "", "apple"}, co \in {<<>>, <<"black">>},
        it \in {NoneVal, "phone"}, um \in {<<>>, <<"sticker">>} }
    \cup {[EmptyEx EXCEPT !.js = "invalid"], [EmptyEx EXCEPT !.js = "nonobj"]}

\* The candidates' records.
QuestionPool ==
    << [EmptyEx EXCEPT !.brand = "apple", !.colors = <<"black">>, !.item_type = "phone"],
       [EmptyEx EXCEPT !.brand = "samsung", !.colors = <<"black">>, !.item_type = "phone"],
       [EmptyEx EXCEPT !.brand = "apple", !.colors = <<"black", "blue">>, !.item_type = "wallet",
                       !.unique_marks = <<"sticker">>],
       [EmptyEx EXCEPT !.brand = "", !.colors = <<"blue">>, !.unique_marks = <<"scratch">>],
       EmptyEx,
       [EmptyEx EXCEPT !.js = "invalid"],
       [EmptyEx EXCEPT !.js = "nonobj"] >>

QuestionRows(shapes) ==
    [i \in 1..Len(shapes) |-> Row(i, "found", <<>>, <<>>, <<>>, Time("none", 0), QuestionPool[shapes[i]])]

QuestionCall ==
    /\ IsIdle
    /\ \E cur_ex \in QuestionCurrents, n \in 0..MaxCands :
        \E shapes \in [1..n -> 1..Len(QuestionPool)] :
            /\ call' = [fn |-> "choose_clarifying_question",
                        current |-> Row(-1, "lost", <<>>, <<>>, <<>>, Time("none", 0), cur_ex),
                        top_candidates |-> QuestionRows(shapes)]
            /\ ret' = choose_clarifying_question(
                          Row(-1, "lost", <<>>, <<>>, <<>>, Time("none", 0), cur_ex),
                          QuestionRows(shapes))
    /\ UNCHANGED <<reports, claims, resp>>

SpecQuestion == InitIdle /\ [][QuestionCall]_vars

QuestionReturned == call.fn = "choose_clarifying_question" /\ ~ret.raised

\* The field is absent or empty on the current record.
AbsentOnCurrent(key) ==
    LET ex == Features(call.current)
    IN CASE key = "brand" -> ex.brand \in {NoneVal, ""}
         [] key = "colors" -> ex.colors = <<>>
         [] key = "item_type" -> ex.item_type \in {NoneVal, ""}
         [] key = "unique_marks" -> ex.unique_marks = <<>>

\* The number of distinct non-empty values of the field over the
\* candidates, lists compared as wholes.
DistinctValues(key) ==
    LET exs == {Features(call.top_candidates[i]) : i \in 1..Len(call.top_candidates)}
    IN CASE key = "brand" -> Cardinality({ex.brand : ex \in exs} \ {NoneVal, ""})
         [] key = "colors" -> Cardinality({ex.colors : ex \in exs} \ {<<>>})
         [] key = "item_type" -> Cardinality({ex.item_type : ex \in exs} \ {NoneVal, ""})
         [] key = "unique_marks" -> Cardinality({ex.unique_marks : ex \in exs} \ {<<>>})

\* C10: choose_question returns a question exactly when there is a
\* candidate and, among the catalog fields absent on the current record,
\* the largest number of distinct values over the candidates is at least
\* 2; the field returned is the first in catalog order that attains the
\* largest number, and is absent on the current record.
C10_QuestionChoice ==
    QuestionReturned =>
        LET absent == {i \in 1..4 : AbsentOnCurrent(QuestionFields[i])}
            asked == ret.key # NoneVal
        IN /\ asked <=> /\ call.top_candidates # <<>>
                        /\ \E i \in absent : DistinctValues(QuestionFields[i]) >= 2
           /\ asked =>
                \E i \in absent :
                    /\ ret.key = QuestionFields[i]
                    /\ \A j \in absent : DistinctValues(QuestionFields[j]) <= DistinctValues(ret.key)
                    /\ \A j \in absent : j < i => DistinctValues(QuestionFields[j]) < DistinctValues(ret.key)

\* The brand differs over the candidates but is set on the current
\* record; item type and marks tie with two values each: the item type,
\* first in the catalog, is asked.
C10_Witness ==
    /\ QuestionReturned
    /\ ret.key = "item_type"
    /\ ~AbsentOnCurrent("brand") /\ DistinctValues("brand") >= 2
    /\ ~AbsentOnCurrent("colors")
    /\ AbsentOnCurrent("unique_marks")
    /\ DistinctValues("unique_marks") = 2 /\ DistinctValues("item_type") = 2

\* ---------------------------------------------------------------------
\* nlp.py: apply_clarification
\* ---------------------------------------------------------------------

RECURSIVE ConcatStr(_)
ConcatStr(syms) == IF syms = <<>> THEN "" ELSE Head(syms) \o ConcatStr(Tail(syms))

\* answer.strip().lower() of an answer that has no token left.
RawLower(answer) == ConcatStr(normalize_text(answer))

\* The marks whose search word ("sticker", "scratch", "engraved" or
\* "etch", "crack" or "broken", "tear" or "torn") is a substring of the
\* token.
MarksIn(token) ==
    CASE token \in {"sticker", "stickers"} -> {"sticker"}
      [] token \in {"scratch", "scratched", "scratches"} -> {"scratch"}
      [] token \in {"engraved", "etched"} -> {"engraved"}
      [] token \in {"crack", "cracked", "broken"} -> {"crack"}
      [] token \in {"tear", "torn"} -> {"tear"}
      [] OTHER -> {}

\* sorted(set(marks)) of the branch for unique_marks.
AnswerMarks(ans_tokens) ==
    SelectSeq(<<"crack", "engraved", "scratch", "sticker", "tear">>,
              LAMBDA mk : \E i \in 1..Len(ans_tokens) : mk \in MarksIn(ans_tokens[i]))

apply_clarification_BrandResetsMarksMutant(extracted, key, answer) ==
    LET ans_tokens == expand_tokens(tokenize(answer))
        tokens1 == expand_tokens(extracted.tokens \o ans_tokens)
        brands == SelectSeq(ans_tokens, LAMBDA t : t \in COMMON_BRANDS)
        itype == infer_item_type(answer, ans_tokens)
        ex1 == CASE key = "brand" ->
                      [extracted EXCEPT !.brand =
                          IF brands # <<>> THEN brands[1]
                          ELSE IF ans_tokens # <<>> THEN ans_tokens[1] ELSE RawLower(answer),
                          !.unique_marks = AnswerMarks(ans_tokens)]
                 [] key = "colors" ->
                      [extracted EXCEPT !.colors = SortedColors(extract_colors(answer, ans_tokens))]
                 [] key = "item_type" ->
                      [extracted EXCEPT !.item_type =
                          IF itype # NoneVal THEN itype
                          ELSE IF ans_tokens # <<>> THEN ans_tokens[1] ELSE NoneVal]
                 [] key = "unique_marks" ->
                      [extracted EXCEPT !.unique_marks = AnswerMarks(ans_tokens)]
                 [] OTHER -> extracted
        it == ex1.item_type
    IN [ex1 EXCEPT !.tokens = IF Truthy(it) THEN AppendNew(tokens1, it) ELSE tokens1]

\* apply_clarification(extracted, key, answer) on a decoded record that
\* is a JSON object.
apply_clarification(extracted, key, answer) ==
    LET ans_tokens == expand_tokens(tokenize(answer))
        tokens1 == expand_tokens(extracted.tokens \o ans_tokens)
        brands == SelectSeq(ans_tokens, LAMBDA t : t \in COMMON_BRANDS)
        itype == infer_item_type(answer, ans_tokens)
        ex1 == CASE key = "brand" ->
                      [extracted EXCEPT !.brand =
                          IF brands # <<>> THEN brands[1]
                          ELSE IF ans_tokens # <<>> THEN ans_tokens[1] ELSE RawLower(answer)]
                 [] key = "colors" ->
                      [extracted EXCEPT !.colors = SortedColors(extract_colors(answer, ans_tokens))]
                 [] key = "item_type" ->
                      [extracted EXCEPT !.item_type =
                          IF itype # NoneVal THEN itype
                          ELSE IF ans_tokens # <<>> THEN ans_tokens[1] ELSE NoneVal]
                 [] key = "unique_marks" ->
                      [extracted EXCEPT !.unique_marks = AnswerMarks(ans_tokens)]
                 [] OTHER -> extracted
        it == ex1.item_type
    IN [ex1 EXCEPT !.tokens = IF Truthy(it) THEN AppendNew(tokens1, it) ELSE tokens1]

\* ---------------------------------------------------------------------
\* SpecExtract: extract applied to texts, then clarifications applied to
\* the record it returned
\* ---------------------------------------------------------------------

\* Bound on the number of clarifications applied to one record.
MaxAnswers == 2

\* A text of words separated by blanks.
Say(words) == [i \in 1..Len(words) |-> <<words[i]>>]

ExtractTexts ==
    { Say(<<"call", "01712345678">>), Say(<<"01712345678">>), <<<<"017", "1234", "5678">>>>,
      Say(<<"88001712345678">>), Say(<<"id", "1234567890123", "wallet">>),
      Say(<<"mail", "Bob@Mail.com", "wallet">>), Say(<<"01712345678", "01712345678">>),
      Say(<<"wallet", "contains", "01712345678">>),
      Say(<<"samsung", "apple", "phone">>), Say(<<"iphone", "apple">>),
      Say(<<"samsung", "phone", "gate">>), Say(<<"casio", "calculator">>),
      Say(<<"mobile", "purse">>), Say(<<"nid", "card">>), Say(<<"national", "id">>),
      Say(<<"passport">>), Say(<<"grid", "cards">>), <<<<"student", "id">>>>, Say(<<"key", "bag">>),
      Say(<<"offwhite", "bag">>), <<<<"off", "white">>, <<"bag">>>>, Say(<<"off", "white", "bag">>),
      Say(<<"light", "blue", "wallet">>), Say(<<"lightblue">>), <<<<"dark", "grey">>>>,
      Say(<<"space", "grey", "iphone">>), Say(<<"rose", "gold">>), Say(<<"primrose", "golden">>),
      <<<<"see", "through">>, <<"bag">>>>, Say(<<"black", "wallet">>), Say(<<"cracked", "phone">>),
      <<>> }

ClarifyKeys == {"brand", "colors", "item_type", "unique_marks", ""}

ClarifyAnswers ==
    { Say(<<"samsung", "iphone">>), Say(<<"offwhite">>), Say(<<"light", "blue">>),
      Say(<<"etched", "sticker">>), Say(<<"01712345678">>) }

ExtractCall ==
    /\ IsIdle
    /\ \E text \in ExtractTexts :
        /\ call' = [fn |-> "extract", text |-> text, key |-> NoneVal, answer |-> <<>>, n |-> 0]
        /\ ret' = extract(text)
    /\ UNCHANGED <<reports, claims, resp>>

\* One more clarification of the record at hand.
ClarifyCall ==
    /\ call.fn \in {"extract", "apply_clarification"}
    /\ call.n < MaxAnswers
    /\ \E key \in ClarifyKeys, answer \in ClarifyAnswers :
        /\ call' = [fn |-> "apply_clarification", text |-> call.text, key |-> key,
                    answer |-> answer, n |-> call.n + 1]
        /\ ret' = apply_clarification(ret, key, answer)
    /\ UNCHANGED <<reports, claims, resp>>

NextExtract == ExtractCall \/ ClarifyCall

SpecExtract == InitIdle /\ [][NextExtract]_vars

\* The record at hand comes from extract(call.text).
Extracted == call.fn \in {"extract", "apply_clarification"}

\* The e-mail addresses (as typed and in lower case), the phone number
\* and the 10-20 digit runs of a text, and the same with their type tag.
RawEmails(text) == Range(Flatten(text)) \cap EmailWords

RawDigits(text) ==
    LET parts == Flatten(Normalized(text))
    IN (Range(parts) \cap LongDigitWords)
       \cup (IF PhoneOfParts(parts) # NoneVal THEN {PhoneOfParts(parts)} ELSE {})

TaggedValues(text) ==
    {"email:" \o LowerEmail(e) : e \in RawEmails(text)}
    \cup (IF PhoneOfParts(Flatten(Normalized(text))) # NoneVal
          THEN {"phone:" \o PhoneOfParts(Flatten(Normalized(text)))} ELSE {})
    \cup {"num:" \o d : d \in Range(Flatten(Normalized(text))) \cap LongDigitWords}

\* C16: in the record extract returns, and after every clarification
\* applied to it, each identifier is a 16 character digest of a
\* type-tagged e-mail address, phone number or digit run of the text, none
\* is the raw or the tagged value itself, and no identifier occurs twice.
C16_IdentifiersAreDigests ==
    Extracted =>
        LET ids == ret.identifiers
            raw == RawEmails(call.text) \cup {LowerEmail(e) : e \in RawEmails(call.text)}
                   \cup RawDigits(call.text)
        IN /\ \A i \in 1..Len(ids) :
                /\ Len(ids[i]) = 16
                /\ ids[i] \notin raw \cup TaggedValues(call.text)
                /\ \E x \in TaggedValues(call.text) : ids[i] = hash_id(x)
           /\ Cardinality(Range(ids)) = Len(ids)

\* A text that is one phone number, which is a digit run too: two
\* digests, still there after two clarifications, the last one an answer
\* that holds the number again.
C16_Witness ==
    /\ call.fn = "apply_clarification" /\ call.n = 2
    /\ call.text = Say(<<"01712345678">>)
    /\ call.answer = Say(<<"01712345678">>)
    /\ ret.identifiers = <<hash_id("phone:01712345678"), hash_id("num:01712345678")>>

\* C17: for a text with a phone number or a 10-20 digit run, no field of
\* the record extract returns other than identifiers holds the raw digit
\* string.
C17_NoRawDigitsInRecord ==
    call.fn = "extract" =>
        \A d \in RawDigits(call.text) :
            /\ d \notin Range(ret.tokens)
            /\ \A i \in 1..Len(ret.contained) : d \notin Range(ret.contained[i])
            /\ d # ret.brand /\ d # ret.item_type
            /\ d \notin Range(ret.colors) /\ d \notin Range(ret.unique_marks)

\* C18: extract sets brand to the first of the text's tokens, in token
\* order, that is in the brand vocabulary, and to none when there is none.
C18_BrandFirstInTokenOrder ==
    call.fn = "extract" =>
        LET brands == SelectSeq(expand_tokens(tokenize(call.text)), LAMBDA t : t \in COMMON_BRANDS)
        IN ret.brand = (IF brands # <<>> THEN brands[1] ELSE NoneVal)

\* The score C19 gives a category for the text of the call.
C19_Score(itype) ==
    3 * Cardinality({ph \in ITEM_PHRASES(itype) : PhraseIn(ph, normalize_text(call.text))})
    + Cardinality({t \in Range(expand_tokens(tokenize(call.text))) : t \in ITEM_SYNONYMS(itype)})

C19_Top == {c \in Range(ItemOrder) : \A d \in Range(ItemOrder) : C19_Score(d) <= C19_Score(c)}

\* C19: infer_item_type returns none when every category scores 0 (3 per
\* phrase of the category found in the normalized text, 1 per distinct
\* token that is a synonym of it); otherwise the category that scores
\* most, and among those that tie the earliest of the preference order.
C19_ItemTypeByScoreThenPreference ==
    call.fn = "extract" =>
        IF \A c \in Range(ItemOrder) : C19_Score(c) = 0
        THEN ret.item_type = NoneVal
        ELSE /\ ret.item_type \in C19_Top
             /\ \A c \in C19_Top : PrefRank(ret.item_type) <= PrefRank(c)

\* "national id": the phrase gives documents 3, the tokens give card 2.
\* "mobile purse": phone and wallet tie at 2, wallet comes first in the
\* preference order and later in the table: one of the two is at hand.
C19_Witness ==
    /\ call.fn = "extract"
    /\ \/ /\ call.text = Say(<<"national", "id">>)
          /\ C19_Score("documents") = 3 /\ C19_Score("card") = 2
          /\ ret.item_type = "documents"
       \/ /\ call.text = Say(<<"mobile", "purse">>)
          /\ C19_Score("phone") = 2 /\ C19_Score("wallet") = 2
          /\ ret.item_type = "wallet"

\* C20: a colour list extract_colors produced never holds a derived
\* colour without its base: "<shade> <base>" comes with <base>, "rose
\* gold" with "gold", "space gray" with "gray", "off white" with "white".
C20_DerivedColourHasBase ==
    Extracted =>
        LET colors == Range(ret.colors)
        IN /\ \A sh \in SHADES, b \in BASE_COLORS : ShadePhrase(sh, b) \in colors => b \in colors
           /\ "rose gold" \in colors => "gold" \in colors
           /\ "space gray" \in colors => "gray" \in colors
           /\ "off white" \in colors => "white" \in colors

\* The field a clarification key names, in a record.
FieldValue(ex, key) ==
    CASE key = "colors" -> ex.colors
      [] key = "item_type" -> ex.item_type
      [] key = "unique_marks" -> ex.unique_marks
      [] key = "brand" -> ex.brand

\* C21: for the keys colors, item_type and unique_marks,
\* apply_clarification sets the field to the value extract derives for
\* that field from the answer alone (so item_type is none when the answer
\* names no category, and the marks are those of extract's vocabulary).
C21_ClarifiedFieldIsExtractOfAnswer ==
    (call.fn = "apply_clarification" /\ call.key \in {"colors", "item_type", "unique_marks"}) =>
        FieldValue(ret, call.key) = FieldValue(extract(call.answer), call.key)

\* A step that applies a clarification to the record at hand.
Clarified == call'.fn = "apply_clarification" /\ Extracted

\* seq is a subsequence of other: its elements occur in other in the
\* same relative order (both without duplicates).
SameOrderIn(seq, other) ==
    /\ Range(seq) \subseteq Range(other)
    /\ SelectSeq(other, LAMBDA t : t \in Range(seq)) = seq

\* C22: in the record extract returns and after every clarification, a
\* set item_type is one of the tokens and no token occurs twice; every
\* token a record has before a clarification is still there after it, in
\* the same relative order.
C22_TokensKeepItemTypeAndOrder ==
    /\ [](Extracted =>
            /\ Truthy(ret.item_type) => ret.item_type \in Range(ret.tokens)
            /\ Cardinality(Range(ret.tokens)) = Len(ret.tokens))
    /\ [][Clarified => SameOrderIn(ret.tokens, ret'.tokens)]_vars

\* "black wallet" told to be an "offwhite": the answer names no category,
\* its first token becomes the item type and joins the tokens after the
\* ones the record had.
C22_Witness ==
    /\ call.fn = "apply_clarification" /\ call.n = 1
    /\ call.text = Say(<<"black", "wallet">>)
    /\ call.key = "item_type" /\ call.answer = Say(<<"offwhite">>)
    /\ ret.item_type = "offwhite"
    /\ SubSeq(ret.tokens, 1, 2) = <<"black", "wallet">>
    /\ Len(ret.tokens) > 2

\* The fields of a record other than tokens.
FrameFields == {"item_type", "colors", "brand", "unique_marks", "contained", "identifiers"}

FrameValue(ex, field) ==
    CASE field = "contained" -> ex.contained
      [] field = "identifiers" -> ex.identifiers
      [] OTHER -> FieldValue(ex, field)

\* C25: a clarification changes tokens and the field its key names, and
\* nothing else: every other field, identifiers always among them (the
\* key is never "identifiers"), is what it was; with a key outside brand,
\* colors, item_type and unique_marks only tokens change.
C25_ClarificationFrame ==
    [][Clarified =>
        \A field \in FrameFields \ {call'.key} : FrameValue(ret', field) = FrameValue(ret, field)]_vars

\* A phone number given as the brand of "black wallet": the brand is the
\* number, the record still has no identifier.
C25_Witness ==
    /\ call.fn = "apply_clarification" /\ call.n = 1
    /\ call.text = Say(<<"black", "wallet">>)
    /\ call.key = "brand" /\ call.answer = Say(<<"01712345678">>)
    /\ ret.brand = "01712345678"
    /\ ret.identifiers = <<>>
    /\ ret.item_type = "wallet" /\ ret.colors = <<"black">>

\* ---------------------------------------------------------------------
\* db.py: get_report; main.py: answer, view_report
\* ---------------------------------------------------------------------

\* get_report(report_id) finds a row: the ids of a table are 1..Len.
HasReport(table, report_id) == report_id \in 1..Len(table)

\* The handler of POST /answer/{report_id} on the table: the table it
\* leaves and the response.  key and answer are form fields, which the
\* framework refuses when empty.
answer(table, u, report_id, key, answer_text) ==
    IF u = NoneVal THEN [reports |-> table, resp |-> Response(303, "login", 0)]
    ELSE IF ~HasReport(table, report_id) THEN [reports |-> table, resp |-> Response(303, "index", 0)]
    ELSE LET ex == apply_clarification(loads_extracted(table[report_id].extracted_json), key, answer_text)
         IN [reports |-> [table EXCEPT ![report_id] =
                             [@ EXCEPT !.extracted_json = ex, !.clarify_key = key]],
             resp |-> Response(303, "report", report_id)]

\* view_report asks rank_matches for k=5 results.
ViewK == 5

\* A question is considered below a top score of 0.55 or a gap of 0.08
\* between the two best scores, in hundredths.
ASK_TOP_MIN == 55

ASK_GAP_MIN == 8

AskQuestion_TopOnlyMutant(matches) ==
    IF Len(matches) >= 2 THEN matches[1].score < ASK_TOP_MIN * JD
    ELSE IF Len(matches) = 1 THEN matches[1].score < ASK_TOP_MIN * JD
    ELSE TRUE

\* main.py lines 338-347: ask_question.
AskQuestion(matches) ==
    IF Len(matches) >= 2
    THEN \/ matches[1].score < ASK_TOP_MIN * JD
         \/ matches[1].score - matches[2].score < ASK_GAP_MIN * JD
    ELSE IF Len(matches) = 1 THEN matches[1].score < ASK_TOP_MIN * JD
    ELSE TRUE

\* main.py lines 349-354: for each match the first candidate with its id.
TopCandidateRows(matches, candidates) ==
    [i \in 1..Len(matches) |->
        candidates[CHOOSE j \in 1..Len(candidates) :
                      /\ candidates[j].id = matches[i].other_id
                      /\ \A h \in 1..(j - 1) : candidates[h].id # matches[i].other_id]]

Asking_IgnoresAnswerMutant(ask_question, r) == ask_question

\* main.py line 357: ask_question and not r.get("clarify_key").
Asking(ask_question, r) == ask_question /\ ~Truthy(r.clarify_key)

\* question = None of the page.
NoAsk == [key |-> NoneVal, text |-> NoneVal]

Page(status, to, id, matches, question) ==
    [status |-> status, to |-> to, id |-> id, matches |-> matches, question |-> question]

\* The handler of GET /report/{report_id}: the response, with the matches
\* and the question handed to the page report.html.  has_sklearn and order
\* are those of retrieve_candidates_tfidf.  A raise of rank_matches or of
\* choose_clarifying_question leaves the handler: the framework answers
\* 500.  The part that reads the approved claims of the matches is left
\* out.
view_report(table, u, report_id, has_sklearn, order) ==
    IF u = NoneVal THEN Page(303, "login", 0, <<>>, NoAsk)
    ELSE IF ~HasReport(table, report_id) THEN Page(404, "", 0, <<>>, NoAsk)
    ELSE LET r == table[report_id]
             candidates == list_reports(table, Opposite(r.kind), FALSE)
             ranked == rank_matches(r, candidates, ViewK, has_sklearn, order)
             matches == ranked.results
             asking == Asking(AskQuestion(matches), r)
             q == choose_clarifying_question(r, Take(TopCandidateRows(matches, candidates), 5))
         IN IF ranked.raised THEN Page(500, "", 0, <<>>, NoAsk)
            ELSE IF asking /\ q.raised THEN Page(500, "", 0, <<>>, NoAsk)
            ELSE Page(200, "report.html", report_id, matches,
                      IF asking /\ q.key # NoneVal
                      THEN [key |-> q.key, text |-> q.question]
                      ELSE NoAsk)

\* ---------------------------------------------------------------------
\* SpecView: report pages of tables of submitted reports, before and
\* after an answer to the question of the first report
\* ---------------------------------------------------------------------

\* Bound on the number of reports of a table.
MaxViewReports == 3

BlueWallet == <<<<"blue">>, <<"wallet">>>>

\* What is submitted: a wallet lost at the gate or a mobile lost, a
\* black or a blue wallet found at the gate, a blue wallet found
\* elsewhere.
ViewInputs ==
    { [kind |-> "lost", title |-> Text1("wallet"), location_text |-> Gate],
      [kind |-> "lost", title |-> Text1("mobile"), location_text |-> <<>>],
      [kind |-> "found", title |-> BlackWallet, location_text |-> Gate],
      [kind |-> "found", title |-> BlueWallet, location_text |-> Gate],
      [kind |-> "found", title |-> BlueWallet, location_text |-> <<>>] }

\* The table the given submissions leave, one after the other.
RECURSIVE SubmitAll(_)
SubmitAll(inputs) ==
    IF inputs = <<>> THEN <<>>
    ELSE LET in == inputs[Len(inputs)]
         IN submit(SubmitAll(SubSeq(inputs, 1, Len(inputs) - 1)), "user", in.kind, in.title, <<>>,
                   in.location_text, Time("none", 0)).reports

ViewTables ==
    UNION { {SubmitAll(inputs) : inputs \in [1..n -> ViewInputs]} : n \in 0..MaxViewReports }

InitView ==
    /\ reports \in ViewTables
    /\ claims = <<>>
    /\ resp = Idle
    /\ call = Idle
    /\ ret = Idle

\* An answer for the first report, or for a report that does not exist;
\* one request without a session.
AnswerCall ==
    /\ \E u \in {NoneVal, "user"}, report_id \in {1, Len(reports) + 1},
          key \in {"colors", "other"}, answer_text \in {Text1("black")} :
        /\ u = NoneVal => (report_id = 1 /\ key = "colors")
        /\ call' = [fn |-> "answer", u |-> u, report_id |-> report_id, key |-> key,
                    has_sklearn |-> FALSE, order |-> <<>>]
        /\ \E out \in {answer(reports, u, report_id, key, answer_text)} :
            /\ reports' = out.reports
            /\ resp' = out.resp
    /\ UNCHANGED <<claims, ret>>

\* The order the candidates of a report are shortlisted in: as listed
\* without the backend, reversed with it.
ViewOrders(table, report_id, has_sklearn) ==
    LET n == IF HasReport(table, report_id)
             THEN Len(list_reports(table, Opposite(table[report_id].kind), FALSE))
             ELSE 0
    IN IF has_sklearn THEN {Reverse(n)} ELSE {Identity(n)}

ViewCall ==
    /\ \E u \in {NoneVal, "user"}, report_id \in 1..(Len(reports) + 1), has_sklearn \in BOOLEAN :
        \E order \in ViewOrders(reports, report_id, has_sklearn) :
            /\ u = NoneVal => (report_id = 1 /\ ~has_sklearn)
            /\ call' = [fn |-> "view_report", u |-> u, report_id |-> report_id, key |-> NoneVal,
                        has_sklearn |-> has_sklearn, order |-> order]
            /\ resp' = view_report(reports, u, report_id, has_sklearn, order)
    /\ UNCHANGED <<reports, claims, ret>>

NextView == AnswerCall \/ ViewCall

SpecView == InitView /\ [][NextView]_vars

\* The last request was answered with the page of a report.
PageShown == call.fn = "view_report" /\ resp.status = 200

\* The candidate rows of the matches on the page, best first.
MatchedRows ==
    [i \in 1..Len(resp.matches) |-> reports[resp.matches[i].other_id]]

\* C11: the page presents a question only if the list of matches is empty,
\* or its top score is below 0.55, or the top two of at least two scores
\* differ by less than 0.08; and when one of these holds, no clarification
\* is recorded for the report and choose_question yields a question for
\* the report and the matched rows, the page presents that question.
C11_QuestionWhenUnsure ==
    PageShown =>
        LET m == resp.matches
            unsure == \/ Len(m) = 0
                      \/ Len(m) >= 1 /\ m[1].score < 55 * JD
                      \/ Len(m) >= 2 /\ m[1].score - m[2].score < 8 * JD
            q == choose_clarifying_question(reports[call.report_id], MatchedRows)
        IN /\ resp.question.key # NoneVal => unsure
           /\ (unsure /\ reports[call.report_id].clarify_key = NoneVal /\ q.key # NoneVal) =>
                 resp.question = [key |-> q.key, text |-> q.question]

\* The two best matches tie at 0.67, above 0.55: the question about the
\* colour, on which they differ, is presented.
C11_Witness ==
    /\ PageShown
    /\ Len(resp.matches) >= 2
    /\ resp.matches[1].score >= 55 * JD
    /\ resp.matches[1].score = resp.matches[2].score
    /\ reports[call.report_id].clarify_key = NoneVal
    /\ resp.question.key = "colors"

\* C30: the page of a report for which an answer has been recorded
\* (clarify_key is set, which only the answer operation does) presents no
\* question, whatever its matches are; and a recorded clarify_key stays
\* set.
C30_NoQuestionOnceAnswered ==
    /\ []((PageShown /\ reports[call.report_id].clarify_key # NoneVal) =>
              resp.question.key = NoneVal)
    /\ [][\A i \in 1..Len(reports) :
            /\ reports[i].clarify_key # NoneVal => reports'[i].clarify_key # NoneVal
            /\ reports'[i].clarify_key # reports[i].clarify_key => call'.fn = "answer"]_vars

\* The first report was answered under a key that fills no field: its
\* two best matches still tie and still differ in colour, a question is
\* at hand, and the page presents none.
C30_Witness ==
    /\ PageShown
    /\ call.report_id = 1
    /\ reports[1].clarify_key = "other"
    /\ AskQuestion(resp.matches)
    /\ choose_clarifying_question(reports[1], MatchedRows).key = "colors"
    /\ resp.question.key = NoneVal

\* ---------------------------------------------------------------------
\* nlp.py: mask_sensitive
\* ---------------------------------------------------------------------

\* What the three substitutions of mask_sensitive leave of a part of the
\* text as typed: _mask_email keeps the first and last character of the
\* user name, _mask_phone the last two digits of a match of BD_PHONE_RE,
\* any other run of 10 to 20 digits becomes the redaction token.  A part
\* no pattern matches stays.
MaskPart(part) ==
    CASE part = "Bob@Mail.com" -> "B*b@Mail.com"
      [] part = "01712345678" -> "*********78"
      [] part = "88001712345678" -> "************78"
      [] part = "1234567890123" -> "[REDACTED_ID]"
      [] OTHER -> part

\* mask_sensitive(text): the patterns run on the text as typed, where
\* blanks and hyphens end a match, so each part is masked on its own.
mask_sensitive(text) ==
    [i \in 1..Len(text) |-> [j \in 1..Len(text[i]) |-> MaskPart(text[i][j])]]

\* ---------------------------------------------------------------------
\* SpecMask: mask_sensitive and extract_identifiers applied to the same
\* text
\* ---------------------------------------------------------------------

\* Bound on the number of chunks of a text.
MaxMaskChunks == 3

\* A word, a mobile number written whole, in three groups or with the
\* country code, another long number and an address.
MaskChunks ==
    { <<"call">>, <<"01712345678">>, <<"017">>, <<"1234">>, <<"5678">>, <<"017", "1234", "5678">>,
      <<"88001712345678">>, <<"1234567890123">>, <<"Bob@Mail.com">> }

MaskTexts == UNION { [1..n -> MaskChunks] : n \in 0..MaxMaskChunks }

MaskCall ==
    /\ IsIdle
    /\ \E text \in MaskTexts :
        /\ call' = [fn |-> "mask_sensitive", text |-> text]
        /\ ret' = [masked |-> mask_sensitive(text), identifiers |-> extract_identifiers(text)]
    /\ UNCHANGED <<reports, claims, resp>>

SpecMask == InitIdle /\ [][MaskCall]_vars

\* The digits a part of a masked text shows.
DigitsShown(part) ==
    CASE part \in {"017", "1234", "5678", "01712345678", "88001712345678", "1234567890123"} -> part
      [] part \in {"*********78", "************78"} -> "78"
      [] OTHER -> ""

\* The digits a masked text shows, in order.
VisibleDigits(masked) ==
    ConcatStr([i \in 1..Len(Flatten(masked)) |-> DigitsShown(Flatten(masked)[i])])

\* The mobile numbers of the model.
MobileNumbers == {"01712345678", "88001712345678"}

\* C26: when extract_identifiers recognises a mobile number in a text
\* (written whole or in groups separated by blanks or hyphens), the output
\* of mask_sensitive on the same text shows at most two digits of it.
C26_RecognisedPhoneIsMasked ==
    call.fn = "mask_sensitive" =>
        \A p \in MobileNumbers :
            hash_id("phone:" \o p) \in Range(ret.identifiers) => Len(VisibleDigits(ret.masked)) <= 2

\* ---------------------------------------------------------------------
\* db.py: claims; main.py: claim_submit, approve_claim, reject_claim,
\* settle_claim_route, dispute_submit
\* ---------------------------------------------------------------------

\* The manage_token of a report: submit draws one for a found report
\* (secrets.token_urlsafe) and stores none for a lost one; no two reports
\* share a token.
ManageToken(r) == IF r.kind = "found" THEN "token" \o ToString(r.id) ELSE NoneVal

\* A text of proof or reason: the number of blanks at its ends and the
\* number of characters strip() leaves.
Typed(blanks, chars) == [blanks |-> blanks, chars |-> chars]

\* (proof_text or "").strip()
Strip(typed) == Typed(0, typed.chars)

\* len(text)
TextLen(typed) == typed.blanks + typed.chars

\* claim_submit refuses a proof of fewer characters.
MIN_PROOF_LEN == 10

\* dispute_submit refuses a reason of fewer characters.
MIN_REASON_LEN == 6

\* get_claim(claim_id) finds a row: the ids of the claims are 1..Len.
HasClaim(ctable, claim_id) == claim_id \in 1..Len(ctable)

has_settled_claim_for_found(ctable, found_id) ==
    \E i \in 1..Len(ctable) : ctable[i].found_report_id = found_id /\ ctable[i].is_settled = 1

\* create_claim: the table with the new row, pending and not settled.
create_claim(ctable, lost_id, found_id, proof_text) ==
    Append(ctable, [id |-> Len(ctable) + 1, lost_report_id |-> lost_id, found_report_id |-> found_id,
                    proof_text |-> proof_text, status |-> "pending", is_settled |-> 0])

set_claim_status(ctable, claim_id, status) ==
    [i \in 1..Len(ctable) |-> IF i = claim_id THEN [ctable[i] EXCEPT !.status = status] ELSE ctable[i]]

settle_claim(ctable, claim_id) ==
    [i \in 1..Len(ctable) |-> IF i = claim_id THEN [ctable[i] EXCEPT !.is_settled = 1] ELSE ctable[i]]

close_report_AlsoClearsTitleMutant(table, report_id) ==
    [i \in 1..Len(table) |->
        IF i = report_id THEN [table[i] EXCEPT !.is_closed = 1, !.title = <<>>] ELSE table[i]]

\* close_report(report_id): an UPDATE, which changes nothing when no row
\* has the id.
close_report(table, report_id) ==
    [i \in 1..Len(table) |-> IF i = report_id THEN [table[i] EXCEPT !.is_closed = 1] ELSE table[i]]

\* What a handler of the claim workflow leaves: both tables and the
\* response.
Outcome(table, ctable, response) == [reports |-> table, claims |-> ctable, resp |-> response]

ProofLongEnough_UntrimmedMutant(proof_text) == TextLen(proof_text) >= MIN_PROOF_LEN

\* main.py lines 455-457: the proof is trimmed, then measured.
ProofLongEnough(proof_text) == TextLen(Strip(proof_text)) >= MIN_PROOF_LEN

\* The handler of POST /claim/{lost_id}/{found_id}.
claim_submit(table, ctable, u, lost_id, found_id, proof_text) ==
    IF u = NoneVal THEN Outcome(table, ctable, Response(303, "login", 0))
    ELSE IF ~HasReport(table, found_id) THEN Outcome(table, ctable, Response(404, "", 0))
    ELSE IF table[found_id].is_closed = 1 \/ has_settled_claim_for_found(ctable, found_id)
         THEN Outcome(table, ctable, Response(400, "", 0))
    ELSE IF ~ProofLongEnough(proof_text) THEN Outcome(table, ctable, Response(400, "", 0))
    ELSE Outcome(table, create_claim(ctable, lost_id, found_id, Strip(proof_text)),
                 Response(303, "report", lost_id))

\* main.py lines 514-516 (and 535-537, 553-555): the report of the claim
\* is there and the token is its manage_token.
Authorized(table, claim, token) ==
    /\ HasReport(table, claim.found_report_id)
    /\ token = ManageToken(table[claim.found_report_id])

\* The handler of POST /manage/claim/{claim_id}/approve.
approve_claim(table, ctable, u, claim_id, token) ==
    IF u = NoneVal THEN Outcome(table, ctable, Response(303, "login", 0))
    ELSE IF ~HasClaim(ctable, claim_id) THEN Outcome(table, ctable, Response(404, "", 0))
    ELSE IF ~Authorized(table, ctable[claim_id], token) THEN Outcome(table, ctable, Response(403, "", 0))
    ELSE IF table[ctable[claim_id].found_report_id].is_closed = 1
         THEN Outcome(table, ctable, Response(400, "", 0))
    ELSE Outcome(table, set_claim_status(ctable, claim_id, "approved"),
                 Response(303, "manage", ctable[claim_id].found_report_id))

\* The handler of POST /manage/claim/{claim_id}/reject.
reject_claim(table, ctable, u, claim_id, token) ==
    IF u = NoneVal THEN Outcome(table, ctable, Response(303, "login", 0))
    ELSE IF ~HasClaim(ctable, claim_id) THEN Outcome(table, ctable, Response(404, "", 0))
    ELSE IF ~Authorized(table, ctable[claim_id], token) THEN Outcome(table, ctable, Response(403, "", 0))
    ELSE Outcome(table, set_claim_status(ctable, claim_id, "rejected"),
                 Response(303, "manage", ctable[claim_id].found_report_id))

\* The handler of POST /manage/claim/{claim_id}/settle.
settle_claim_route(table, ctable, u, claim_id, token) ==
    IF u = NoneVal THEN Outcome(table, ctable, Response(303, "login", 0))
    ELSE IF ~HasClaim(ctable, claim_id) THEN Outcome(table, ctable, Response(404, "", 0))
    ELSE IF ~Authorized(table, ctable[claim_id], token) THEN Outcome(table, ctable, Response(403, "", 0))
    ELSE IF ctable[claim_id].status # "approved" THEN Outcome(table, ctable, Response(400, "", 0))
    ELSE Outcome(close_report(close_report(table, ctable[claim_id].found_report_id),
                              ctable[claim_id].lost_report_id),
                 settle_claim(ctable, claim_id),
                 Response(303, "manage", ctable[claim_id].found_report_id))

\* The handler of POST /dispute/{claim_id}.  It ends with create_dispute,
\* which writes to the table disputes only; main.py passes it
\* reporter_name and reporter_phone, which the create_dispute of db.py
\* does not take, so the call either stores a dispute (stored) or raises
\* and the framework answers 500.
dispute_submit(table, ctable, u, claim_id, reason, stored) ==
    IF u = NoneVal THEN Outcome(table, ctable, Response(303, "login", 0))
    ELSE IF ~HasClaim(ctable, claim_id) THEN Outcome(table, ctable, Response(404, "", 0))
    ELSE IF TextLen(Strip(reason)) < MIN_REASON_LEN THEN Outcome(table, ctable, Response(400, "", 0))
    ELSE IF stored THEN Outcome(table, ctable, Response(303, "claims", claim_id))
    ELSE Outcome(table, ctable, Response(500, "", 0))

\* ---------------------------------------------------------------------
\* SpecClaims: reports are submitted, answered and viewed while claims on
\* them are made, approved, rejected, settled and disputed
\* ---------------------------------------------------------------------

\* Bound on the number of reports.
MaxFlowReports == 2

\* Bound on the number of claims.
MaxClaims == 2

\* Proofs of 9 and of 10 characters, bare or between blanks; the ones
\* other than the bare proof of 10 characters come with the claims for
\* report 1.
Proofs == {Typed(0, 9), Typed(1, 9), Typed(0, 10), Typed(2, 10)}

\* Reasons of 5 and of 6 characters, the short one for the first claim.
Reasons == {Typed(1, 5), Typed(0, 6)}

\* A request without a session is sent once per handler, with the first
\* of its inputs.
Users(first) == IF first THEN {NoneVal, "user"} ELSE {"user"}

\* The token requests carry for a claim: the one of its found report, or
\* another.
Tokens(claim_id) ==
    {"other"} \cup (IF HasClaim(claims, claim_id) /\ HasReport(reports, claims[claim_id].found_report_id)
                    THEN {ManageToken(reports[claims[claim_id].found_report_id])} \ {NoneVal}
                    ELSE {})

\* The outcome of a handler becomes the state.
Served(out) ==
    /\ reports' = out.reports
    /\ claims' = out.claims
    /\ resp' = out.resp
    /\ UNCHANGED ret

\* One more black wallet at the gate, lost or found.
ClaimsSubmit ==
    /\ Len(reports) < MaxFlowReports
    /\ \E kind \in Kinds : Submitted("user", kind, BlackWallet, <<>>, Gate, Time("none", 0))

\* The colour of the first report is told.
ClaimsAnswer ==
    /\ HasReport(reports, 1)
    /\ call' = [fn |-> "answer", u |-> "user", report_id |-> 1]
    /\ \E out \in {answer(reports, "user", 1, "colors", Text1("blue"))} :
        /\ reports' = out.reports
        /\ resp' = out.resp
    /\ UNCHANGED <<claims, ret>>

ClaimsView ==
    /\ \E report_id \in 1..Len(reports) :
        /\ call' = [fn |-> "view_report", u |-> "user", report_id |-> report_id]
        /\ resp' = view_report(reports, "user", report_id, FALSE,
                               Identity(Len(list_reports(reports, Opposite(reports[report_id].kind), FALSE))))
    /\ UNCHANGED <<reports, claims, ret>>

ClaimSubmitCall ==
    /\ Len(claims) < MaxClaims
    /\ \E lost_id \in 1..(Len(reports) + 1), found_id \in 1..(Len(reports) + 1), proof_text \in Proofs :
        \E u \in Users(lost_id = 1 /\ found_id = 1 /\ proof_text = Typed(0, 10)) :
            /\ proof_text # Typed(0, 10) => lost_id = 1
            /\ call' = [fn |-> "claim_submit", u |-> u, lost_id |-> lost_id, found_id |-> found_id,
                        proof_text |-> proof_text]
            /\ Served(claim_submit(reports, claims, u, lost_id, found_id, proof_text))

ApproveCall ==
    \E claim_id \in 1..(Len(claims) + 1) :
        \E token \in Tokens(claim_id), u \in Users(claim_id = 1) :
            /\ u = NoneVal => token # "other"
            /\ call' = [fn |-> "approve_claim", u |-> u, claim_id |-> claim_id, token |-> token]
            /\ Served(approve_claim(reports, claims, u, claim_id, token))

RejectCall ==
    \E claim_id \in 1..(Len(claims) + 1) :
        \E token \in Tokens(claim_id), u \in Users(claim_id = 1) :
            /\ u = NoneVal => token # "other"
            /\ call' = [fn |-> "reject_claim", u |-> u, claim_id |-> claim_id, token |-> token]
            /\ Served(reject_claim(reports, claims, u, claim_id, token))

SettleCall ==
    \E claim_id \in 1..(Len(claims) + 1) :
        \E token \in Tokens(claim_id), u \in Users(claim_id = 1) :
            /\ u = NoneVal => token # "other"
            /\ call' = [fn |-> "settle_claim_route", u |-> u, claim_id |-> claim_id, token |-> token]
            /\ Served(settle_claim_route(reports, claims, u, claim_id, token))

DisputeCall ==
    \E claim_id \in 1..(Len(claims) + 1), reason \in Reasons, stored \in BOOLEAN :
        \E u \in Users(claim_id = 1 /\ reason = Typed(0, 6) /\ stored) :
            /\ reason # Typed(0, 6) => (claim_id = 1 /\ stored)
            /\ call' = [fn |-> "dispute_submit", u |-> u, claim_id |-> claim_id, reason |-> reason,
                        stored |-> stored]
            /\ Served(dispute_submit(reports, claims, u, claim_id, reason, stored))

NextClaims ==
    \/ ClaimsSubmit
    \/ ClaimsAnswer
    \/ ClaimsView
    \/ ClaimSubmitCall
    \/ ApproveCall
    \/ RejectCall
    \/ SettleCall
    \/ DisputeCall

SpecClaims == InitIdle /\ [][NextClaims]_vars

\* C23: no step changes the kind, title, description or location_text of
\* a report that is in the table, and no report leaves the table.
C23_ReportTextAndKindFixed ==
    [][\A i \in 1..Len(reports) :
        /\ i <= Len(reports')
        /\ reports'[i].id = reports[i].id
        /\ reports'[i].kind = reports[i].kind
        /\ reports'[i].title = reports[i].title
        /\ reports'[i].description = reports[i].description
        /\ reports'[i].location_text = reports[i].location_text]_vars

\* The first report, a found black wallet, has been answered, claimed and
\* closed by the settlement of the claim, another report was submitted
\* and the claim disputed.
C23_Witness ==
    /\ call.fn = "dispute_submit" /\ resp.status = 303 /\ resp.to = "claims"
    /\ Len(reports) = 2
    /\ reports[1].kind = "found" /\ reports[1].title = BlackWallet /\ reports[1].location_text = Gate
    /\ reports[1].clarify_key = "colors" /\ reports[1].is_closed = 1
    /\ \E i \in 1..Len(claims) : claims[i].found_report_id = 1 /\ claims[i].is_settled = 1

\* The claims that are settled, and the reports they name.
SettledClaims == {i \in 1..Len(claims) : claims[i].is_settled = 1}

SettledReports ==
    {claims[i].found_report_id : i \in SettledClaims} \cup {claims[i].lost_report_id : i \in SettledClaims}

\* C24: the found report and the lost report of a settled claim are
\* closed; neither is among the matches of a report page, nor the
\* duplicate_of of a report submitted afterwards.
C24_SettledReportsStayOut ==
    /\ \A id \in SettledReports : HasReport(reports, id) => reports[id].is_closed = 1
    /\ PageShown => \A i \in 1..Len(resp.matches) : resp.matches[i].other_id \notin SettledReports
    /\ Stored => NewRow.duplicate_of \notin SettledReports

\* C27: every settled claim has the status approved.
C27_SettledIsApproved ==
    \A i \in SettledClaims : claims[i].status = "approved"

\* C28: no found report has two settled claims.
C28_OneSettledClaimPerFound ==
    \A i \in SettledClaims, j \in SettledClaims :
        claims[i].found_report_id = claims[j].found_report_id => i = j

\* The found report of a claim request is there, open and without a
\* settled claim, and the proof has ten characters between its blanks.
Claimable(table, ctable, found_id, proof_text) ==
    /\ found_id \in {table[i].id : i \in 1..Len(table)}
    /\ \A i \in 1..Len(table) : table[i].id = found_id => table[i].is_closed = 0
    /\ \A i \in 1..Len(ctable) : ctable[i].found_report_id = found_id => ctable[i].is_settled = 0
    /\ proof_text.chars >= 10

\* C29: a claim_submit request of a logged-in user stores a claim when
\* the found report exists, is open and has no settled claim and the
\* trimmed proof has at least 10 characters: one row more, pending and
\* not settled, the rows before unchanged.  In every other case the
\* response is an error (404 or 400) and the claims are unchanged.
\* Without a session the request is sent to the login page and the claims
\* are unchanged.
C29_ClaimOnlyOnOpenFoundWithProof ==
    [][call'.fn = "claim_submit" =>
        LET ok == Claimable(reports, claims, call'.found_id, call'.proof_text)
        IN /\ reports' = reports
           /\ claims' # claims => (ok /\ call'.u # NoneVal)
           /\ (ok /\ call'.u # NoneVal) =>
                /\ Len(claims') = Len(claims) + 1
                /\ SubSeq(claims', 1, Len(claims)) = claims
                /\ claims'[Len(claims')].status = "pending"
                /\ claims'[Len(claims')].is_settled = 0
                /\ claims'[Len(claims')].found_report_id = call'.found_id
                /\ claims'[Len(claims')].lost_report_id = call'.lost_id
                /\ resp'.status = 303
           /\ (~ok /\ call'.u # NoneVal) => resp'.status \in {400, 404}
           /\ call'.u = NoneVal => (resp'.status = 303 /\ resp'.to = "login")]_vars

\* A second claim on an open found report, its proof of ten characters
\* typed between blanks: stored pending, after the first.
C29_Witness ==
    /\ call.fn = "claim_submit" /\ call.proof_text = Typed(2, 10)
    /\ resp.status = 303 /\ resp.to = "report"
    /\ Len(claims) = 2
    /\ claims[2].status = "pending" /\ claims[2].is_settled = 0
    /\ claims[2].found_report_id = call.found_id
    /\ reports[call.found_id].is_closed = 0
====
